---------------------------- MODULE Spec2Model ----------------------------
(***************************************************************************)
(* Reconciliation of the Firestore "beatdowns" collection with the         *)
(* upstream F3 API: the scheduled full sync (syncAllBeatdowns), the sync   *)
(* script (main) and the webhook-scoped operations.                        *)
(*                                                                         *)
(* Strings are sequences of one-character strings, so that the id          *)
(* derivation (lower-casing, character replacement, hyphen collapsing) is  *)
(* computed as the code computes it.  null, undefined and '' are all the   *)
(* empty sequence: every use in the code is a falsy test (||, !x).         *)
(* Server timestamps are abstracted to "unset"/"set"; the report variable  *)
(* names the last operation and whether it ended in an error.              *)
(***************************************************************************)
EXTENDS Integers, Sequences, FiniteSets, TLC

VARIABLES
    docs,          \* the beatdowns collection: document id -> stored document
    apiEvents,     \* upstream events: event id -> event, or NoEvent
    apiLocations,  \* upstream locations: location id -> location, or NoLocation
    report,        \* what the last operation did (its log / summary output)
    edits,         \* number of upstream changes so far (bounded)
    idA,           \* input under test of a pure function (for the identity
    idB,           \* deriver, a pair of records)
    webhookLogs,   \* the webhookLogs collection, in order of arrival
    fetch,         \* one fetchWithRetry call: attempts made so far and its outcome
    rerun,         \* one adminRerunWebhooks call: the logs it has still to replay
    jsonCache      \* data/all.json in Cloud Storage: the published beatdowns

vars == <<docs, apiEvents, apiLocations, report, edits, idA, idB, webhookLogs, fetch,
          rerun, jsonCache>>

\* what the reconciliation operations themselves never touch
aux == <<webhookLogs, fetch, rerun, jsonCache>>

----------------------------------------------------------------------------
(* Bounds *)

MaxEdits == 1
MaxProbeEventId == 12

----------------------------------------------------------------------------
(* Strings *)

UpperChars == <<"A","B","C","D","E","F","G","H","I","J","K","L","M",
                "N","O","P","Q","R","S","T","U","V","W","X","Y","Z">>

LowerChars == <<"a","b","c","d","e","f","g","h","i","j","k","l","m",
                "n","o","p","q","r","s","t","u","v","w","x","y","z">>

DigitChars == <<"0","1","2","3","4","5","6","7","8","9">>

Range(s) == { s[i] : i \in DOMAIN s }

\* the characters strings are made of
Chars == Range(UpperChars) \cup Range(LowerChars) \cup Range(DigitChars)
             \cup {" ", "-", "_", ",", ":"}

\* String.prototype.toLowerCase, per character
LowerChar ==
    [ c \in Chars |->
        IF c \in Range(UpperChars)
        THEN LowerChars[CHOOSE i \in 1..26 : UpperChars[i] = c]
        ELSE c ]

toLowerCase(s) == [ i \in DOMAIN s |-> LowerChar[s[i]] ]

\* the character class [a-z0-9-]
IdChars == Range(LowerChars) \cup Range(DigitChars) \cup {"-"}

\* a slip that lets the underscore through
replaceNonIdCharsKeepingUnderscore(s) ==
    [ i \in DOMAIN s |-> IF s[i] \in IdChars \cup {"_"} THEN s[i] ELSE "-" ]

\* .replace(/[^a-z0-9-]/g, '-'): every character outside the class, one by one
replaceNonIdChars(s) == [ i \in DOMAIN s |-> IF s[i] \in IdChars THEN s[i] ELSE "-" ]

\* .replace(/-+/g, '-')
collapseHyphens(s) ==
    SelectSeq([ i \in DOMAIN s |->
                  IF s[i] = "-" /\ i > 1 /\ s[i-1] = "-" THEN "" ELSE s[i] ],
              LAMBDA c : c # "")

\* a slip that strips the trailing hyphen only (/-$/)
stripTrailingHyphen(s) ==
    IF Len(s) > 0 /\ s[Len(s)] = "-" THEN SubSeq(s, 1, Len(s) - 1) ELSE s

\* .replace(/^-|-$/g, '')
stripEdgeHyphens(s) ==
    LET a == IF Len(s) > 0 /\ s[1] = "-" THEN Tail(s) ELSE s
    IN  IF Len(a) > 0 /\ a[Len(a)] = "-" THEN SubSeq(a, 1, Len(a) - 1) ELSE a

\* template-literal conversion of a non-negative integer
RECURSIVE numberToString(_)
numberToString(n) ==
    IF n < 10 THEN << DigitChars[n + 1] >>
    ELSE numberToString(n \div 10) \o << DigitChars[(n % 10) + 1] >>

\* String.prototype.trim (spaces)
RECURSIVE trimLeft(_)
trimLeft(s) == IF Len(s) > 0 /\ s[1] = " " THEN trimLeft(Tail(s)) ELSE s

RECURSIVE trimRight(_)
trimRight(s) ==
    IF Len(s) > 0 /\ s[Len(s)] = " " THEN trimRight(SubSeq(s, 1, Len(s) - 1)) ELSE s

trim(s) == trimRight(trimLeft(s))

\* Array.prototype.join over the non-empty parts
RECURSIVE joinParts(_, _)
joinParts(parts, sep) ==
    IF Len(parts) = 0 THEN << >>
    ELSE IF Len(parts) = 1 THEN parts[1]
    ELSE parts[1] \o sep \o joinParts(Tail(parts), sep)

\* [..].filter(Boolean).join(', ')
joinNonEmpty(parts) == joinParts(SelectSeq(parts, LAMBDA p : p # << >>), <<",", " ">>)

\* a || b on strings
OrElse(a, b) == IF a # << >> THEN a ELSE b

----------------------------------------------------------------------------
(* Record Normalizer *)

DigitValue == [ c \in Range(DigitChars) |-> (CHOOSE i \in 1..10 : DigitChars[i] = c) - 1 ]

\* String.prototype.padStart(4, '0')
padStart4(s) == [ i \in 1..(4 - Len(s)) |-> "0" ] \o s

\* a slip that leaves out the || 12
formatTimeModuloOnly(militaryTime) ==
    IF militaryTime = << >> THEN << >>
    ELSE LET paddedTime   == padStart4(militaryTime)
             hours        == DigitValue[paddedTime[1]] * 10 + DigitValue[paddedTime[2]]
             minutes      == SubSeq(paddedTime, 3, Len(paddedTime))
             period       == IF hours >= 12 THEN <<"p","m">> ELSE <<"a","m">>
         IN  numberToString(hours % 12) \o <<":">> \o minutes \o <<" ">> \o period

formatTime(militaryTime) ==
    IF militaryTime = << >> THEN << >>
    ELSE LET paddedTime   == padStart4(militaryTime)
             hours        == DigitValue[paddedTime[1]] * 10 + DigitValue[paddedTime[2]]
             minutes      == SubSeq(paddedTime, 3, Len(paddedTime))
             period       == IF hours >= 12 THEN <<"p","m">> ELSE <<"a","m">>
             displayHours == IF hours % 12 # 0 THEN hours % 12 ELSE 12
         IN  numberToString(displayHours) \o <<":">> \o minutes \o <<" ">> \o period

FirstOrEmpty(list) == IF Len(list) > 0 THEN list[1] ELSE << >>

UnknownRegion == <<"U","n","k","n","o","w","n"," ","R","e","g","i","o","n">>
UnknownType   == <<"U","n","k","n","o","w","n">>

EventAddress(location, event) ==
    OrElse(event.location,
      OrElse(joinNonEmpty(<<event.locationAddress, event.locationAddress2,
                            event.locationCity, event.locationState, event.locationZip>>),
             joinNonEmpty(<<location.addressStreet, location.addressStreet2,
                            location.addressCity, location.addressState,
                            location.addressZip>>)))

\* index.ts: the cloud functions' normalizer
transformToBeatdown(location, event) ==
    [ dayOfWeek  |-> event.dayOfWeek,
      timeString |-> formatTime(event.startTime) \o <<" ","-"," ">> \o formatTime(event.endTime),
      type       |-> OrElse(FirstOrEmpty(event.eventTypes), UnknownType),
      region     |-> OrElse(FirstOrEmpty(event.regions),
                            OrElse(location.regionName, UnknownRegion)),
      website    |-> << >>,
      notes      |-> OrElse(event.description, location.description),
      name       |-> OrElse(event.name, OrElse(event.locationName, location.locationName)),
      address    |-> EventAddress(location, event),
      lat        |-> location.latitude,
      long       |-> location.longitude,
      locationId |-> event.locationId,
      eventId    |-> event.id ]

\* a slip that takes the name from the event alone
transformEventToBeatdownEventName(event, location) ==
    [ dayOfWeek  |-> event.dayOfWeek,
      timeString |-> formatTime(event.startTime) \o <<" ","-"," ">> \o formatTime(event.endTime),
      type       |-> OrElse(FirstOrEmpty(event.eventTypes), UnknownType),
      region     |-> OrElse(FirstOrEmpty(event.regions),
                            OrElse(location.regionName, UnknownRegion)),
      website    |-> << >>,
      notes      |-> event.description,
      name       |-> event.name,
      address    |-> EventAddress(location, event),
      lat        |-> location.latitude,
      long       |-> location.longitude,
      locationId |-> event.locationId,
      eventId    |-> event.id ]

\* the sync script's normalizer
transformEventToBeatdown(event, location) ==
    [ dayOfWeek  |-> event.dayOfWeek,
      timeString |-> formatTime(event.startTime) \o <<" ","-"," ">> \o formatTime(event.endTime),
      type       |-> OrElse(FirstOrEmpty(event.eventTypes), UnknownType),
      region     |-> OrElse(FirstOrEmpty(event.regions),
                            OrElse(location.regionName, UnknownRegion)),
      website    |-> << >>,
      notes      |-> event.description,
      name       |-> OrElse(event.name, OrElse(event.locationName, location.locationName)),
      address    |-> EventAddress(location, event),
      lat        |-> location.latitude,
      long       |-> location.longitude,
      locationId |-> event.locationId,
      eventId    |-> event.id ]

----------------------------------------------------------------------------
(* Identity Deriver *)

\* a slip that leaves the event id out of the base string
generateBeatdownIdNoEvent(beatdown) ==
    stripEdgeHyphens(collapseHyphens(replaceNonIdChars(toLowerCase(
        beatdown.region \o <<"_">> \o beatdown.name \o <<"_">> \o beatdown.dayOfWeek))))

\* a slip that puts the time into the base string
generateBeatdownIdWithTime(beatdown) ==
    stripEdgeHyphens(collapseHyphens(replaceNonIdChars(toLowerCase(
        beatdown.region \o <<"_">> \o beatdown.name \o <<"_">> \o beatdown.dayOfWeek
            \o <<"_">> \o beatdown.timeString
            \o <<"_">> \o numberToString(beatdown.eventId)))))

\* current scheme: region_name_day_eventId
generateBeatdownId(beatdown) ==
    stripEdgeHyphens(collapseHyphens(replaceNonIdChars(toLowerCase(
        beatdown.region \o <<"_">> \o beatdown.name \o <<"_">> \o beatdown.dayOfWeek
            \o <<"_">> \o numberToString(beatdown.eventId)))))

\* a slip that collapses the hyphens as the current scheme does
generateOldBeatdownIdCollapsing(beatdown) ==
    collapseHyphens(replaceNonIdChars(toLowerCase(
        beatdown.region \o <<"_">> \o beatdown.name \o <<"_">> \o beatdown.dayOfWeek)))

\* legacy scheme: region_name_day
generateOldBeatdownId(beatdown) ==
    replaceNonIdChars(toLowerCase(
        beatdown.region \o <<"_">> \o beatdown.name \o <<"_">> \o beatdown.dayOfWeek))

----------------------------------------------------------------------------
(* Change Detector.  Coordinates are integers in units of 10^-6 degree. *)

Abs(x) == IF x < 0 THEN -x ELSE x

\* Math.round(val * 100000) / 100000, in units of 10^-5 degree
normalizeCoord(val) == (val + 5) \div 10

\* normalizeValue on a string field: null/undefined -> '', else String(val).trim()
normalizeValue(val) == trim(val)

\* 1000 * cos(d degrees), d = 0..90
CosMilliTable ==
    << 1000, 1000, 999, 999, 998, 996, 995, 993, 990, 988, 985, 982, 978, 974, 970,
       966, 961, 956, 951, 946, 940, 934, 927, 921, 914, 906, 899, 891, 883, 875,
       866, 857, 848, 839, 829, 819, 809, 799, 788, 777, 766, 755, 743, 731, 719,
       707, 695, 682, 669, 656, 643, 629, 616, 602, 588, 574, 559, 545, 530, 515,
       500, 485, 469, 454, 438, 423, 407, 391, 375, 358, 342, 326, 309, 292, 276,
       259, 242, 225, 208, 191, 174, 156, 139, 122, 105, 87, 70, 52, 35, 17, 0 >>

\* Math.cos((lat1 + lat2) / 2 * Math.PI / 180), to the nearest degree
CosMilli(lat1, lat2) == CosMilliTable[((Abs(lat1 + lat2) \div 2 + 500000) \div 1000000) + 1]

\* sqrt(latDiff^2 + longDiff^2) < 10 with latDiff = |dLat| * 111000 and
\* longDiff = |dLong| * 111000 * cos(mean latitude); 10 m = 90.09 * 10^-6 degree.
\* Differences beyond 0.1 degree are decided before squaring.
distanceUnderTenMeters(lat1, long1, lat2, long2) ==
    LET dLat == Abs(lat1 - lat2)
        dLong == Abs(long1 - long2)
        c == CosMilli(lat1, lat2)
    IN  IF dLat > 90 THEN FALSE
        ELSE IF c = 0 THEN TRUE
        ELSE IF dLong > 100000 THEN FALSE
        ELSE LET lo == (dLong * c) \div 10
             IN  lo <= 9009 /\ dLat * dLat * 10000 + lo * lo < 81162243

\* a slip that compares the rounded values only
coordinatesAreEqualRounded(lat1, long1, lat2, long2) ==
    /\ normalizeCoord(lat1) = normalizeCoord(lat2)
    /\ normalizeCoord(long1) = normalizeCoord(long2)

coordinatesAreEqual(lat1, long1, lat2, long2) ==
    \/ /\ normalizeCoord(lat1) = normalizeCoord(lat2)
       /\ normalizeCoord(long1) = normalizeCoord(long2)
    \/ distanceUnderTenMeters(lat1, long1, lat2, long2)

\* a slip that compares the identity fields as well
beatdownsAreEqualWithIds(bd1, bd2) ==
    /\ normalizeValue(bd1.dayOfWeek) = normalizeValue(bd2.dayOfWeek)
    /\ normalizeValue(bd1.timeString) = normalizeValue(bd2.timeString)
    /\ normalizeValue(bd1.type) = normalizeValue(bd2.type)
    /\ normalizeValue(bd1.region) = normalizeValue(bd2.region)
    /\ normalizeValue(bd1.website) = normalizeValue(bd2.website)
    /\ normalizeValue(bd1.notes) = normalizeValue(bd2.notes)
    /\ normalizeValue(bd1.name) = normalizeValue(bd2.name)
    /\ normalizeValue(bd1.address) = normalizeValue(bd2.address)
    /\ coordinatesAreEqual(bd1.lat, bd1.long, bd2.lat, bd2.long)
    /\ bd1.locationId = bd2.locationId
    /\ bd1.eventId = bd2.eventId

beatdownsAreEqual(bd1, bd2) ==
    /\ normalizeValue(bd1.dayOfWeek) = normalizeValue(bd2.dayOfWeek)
    /\ normalizeValue(bd1.timeString) = normalizeValue(bd2.timeString)
    /\ normalizeValue(bd1.type) = normalizeValue(bd2.type)
    /\ normalizeValue(bd1.region) = normalizeValue(bd2.region)
    /\ normalizeValue(bd1.website) = normalizeValue(bd2.website)
    /\ normalizeValue(bd1.notes) = normalizeValue(bd2.notes)
    /\ normalizeValue(bd1.name) = normalizeValue(bd2.name)
    /\ normalizeValue(bd1.address) = normalizeValue(bd2.address)
    /\ coordinatesAreEqual(bd1.lat, bd1.long, bd2.lat, bd2.long)

----------------------------------------------------------------------------
(* Upstream data: two events sharing region, name and day (one legacy id),  *)
(* two locations.                                                           *)

EventIds == {1, 2}
LocationIds == {1, 2}
GoneEventId == 9

NoEvent == [ absent |-> "event" ]
NoLocation == [ absent |-> "location" ]

Monday  == <<"m","o","n","d","a","y">>
RiverC  == <<"R"," ","C">>
OxRegion == <<"O","x">>
NameGo  == <<"G","o">>
NameUp  == <<"U","p">>
Time0530 == <<"0","5","3","0">>
Time1200 == <<"1","2","0","0">>
Time0615 == <<"6","1","5">>
NotesHi == <<"h","i">>
Addr1A  == <<"1"," ","A">>

BaseEvent(e) ==
    [ id |-> e, name |-> NameGo, locationName |-> << >>, description |-> << >>,
      isActive |-> TRUE, locationId |-> 1, dayOfWeek |-> Monday,
      startTime |-> Time0530, endTime |-> Time0615,
      regions |-> IF e = 2 THEN << >> ELSE << RiverC >>,
      eventTypes |-> << >>, location |-> << >>,
      locationAddress |-> << >>, locationAddress2 |-> << >>, locationCity |-> << >>,
      locationState |-> << >>, locationZip |-> << >> ]

BaseLocation(l) ==
    [ id |-> l, inBulk |-> TRUE, locationName |-> <<"L">>, description |-> << >>,
      regionName |-> IF l = 1 THEN RiverC ELSE OxRegion,
      latitude |-> 30100000 + l * 1000000, longitude |-> -81600000,
      addressStreet |-> <<"9">>, addressStreet2 |-> << >>, addressCity |-> <<"T">>,
      addressState |-> << >>, addressZip |-> << >> ]

Toggle(v, a, b) == IF v = a THEN b ELSE a

\* the changes the upstream API may undergo between two operations

EditedEvent(ev, e, kind) ==
    IF kind = "presence" THEN (IF ev = NoEvent THEN BaseEvent(e) ELSE NoEvent)
    ELSE IF kind = "time" THEN [ev EXCEPT !.startTime = Toggle(@, Time0530, Time1200)]
    ELSE IF kind = "notes" THEN [ev EXCEPT !.description = Toggle(@, << >>, NotesHi)]
    ELSE IF kind = "address" THEN [ev EXCEPT !.location = Toggle(@, << >>, Addr1A)]
    ELSE IF kind = "name" THEN [ev EXCEPT !.name = Toggle(@, NameGo, NameUp)]
    ELSE IF kind = "location" THEN [ev EXCEPT !.locationId = Toggle(@, 1, 2)]
    ELSE [ev EXCEPT !.isActive = ~@]

EditedLocation(loc, l, kind) ==
    IF kind = "presence" THEN (IF loc = NoLocation THEN BaseLocation(l) ELSE NoLocation)
    ELSE IF kind = "jitter"
         THEN [loc EXCEPT !.latitude = Toggle(@, BaseLocation(l).latitude,
                                                 BaseLocation(l).latitude + 30)]
    ELSE [loc EXCEPT !.longitude = Toggle(@, BaseLocation(l).longitude,
                                             BaseLocation(l).longitude + 2000)]

----------------------------------------------------------------------------
(* The stored collection *)

\* a Beatdown as a stored document
AsDoc(beatdown, stamped) ==
    [ dayOfWeek |-> beatdown.dayOfWeek, timeString |-> beatdown.timeString,
      type |-> beatdown.type, region |-> beatdown.region, website |-> beatdown.website,
      notes |-> beatdown.notes, name |-> beatdown.name, address |-> beatdown.address,
      lat |-> beatdown.lat, long |-> beatdown.long,
      locationId |-> beatdown.locationId, eventId |-> beatdown.eventId,
      lastUpdated |-> stamped, deleted |-> FALSE, deletedAt |-> FALSE ]

\* docRef.set({...beatdown, lastUpdated?}, { merge: true })
SetMerge(d, id, beatdown, stamp) ==
    LET fresh == AsDoc(beatdown, stamp)
        new == IF id \in DOMAIN d
               THEN [fresh EXCEPT !.lastUpdated = stamp \/ d[id].lastUpdated,
                                  !.deleted = d[id].deleted,
                                  !.deletedAt = d[id].deletedAt]
               ELSE fresh
    IN  [ x \in DOMAIN d \cup {id} |-> IF x = id THEN new ELSE d[x] ]

\* a batch of set-merge writes, in order
RECURSIVE SetMergeAll(_, _, _)
SetMergeAll(d, writes, stamp) ==
    IF Len(writes) = 0 THEN d
    ELSE SetMergeAll(SetMerge(d, writes[1].docId, writes[1].beatdown, stamp),
                     Tail(writes), stamp)

\* a slip that flips the deleted flag instead of setting it
SoftDeleteToggling(d, ids) ==
    [ x \in DOMAIN d |->
        IF x \in ids
        THEN [d[x] EXCEPT !.deleted = ~@, !.deletedAt = ~@, !.lastUpdated = TRUE]
        ELSE d[x] ]

\* docRef.update({deleted: true, deletedAt: now, lastUpdated: now}) on each id
SoftDelete(d, ids) ==
    [ x \in DOMAIN d |->
        IF x \in ids
        THEN [d[x] EXCEPT !.deleted = TRUE, !.deletedAt = TRUE, !.lastUpdated = TRUE]
        ELSE d[x] ]

\* batch.delete(docRef) on each id
HardDelete(d, ids) == [ x \in DOMAIN d \ ids |-> d[x] ]

\* ascending enumeration of a set of integers
RECURSIVE SortedSeq(_)
SortedSeq(S) ==
    IF S = {} THEN << >>
    ELSE LET m == CHOOSE x \in S : \A y \in S : x <= y
         IN  << m >> \o SortedSeq(S \ {m})

SeedBeatdown(e) == transformToBeatdown(BaseLocation(1), BaseEvent(e))

\* documents the collection may hold before the first operation of a run:
\* a legacy-id document of event 1 (no lastUpdated), a soft-deleted current-id
\* document of event 1, a current-id document of event 2, and a document of
\* an event that upstream no longer has
\* the collections a run may start from
SeedSets ==
    { {},
      { generateOldBeatdownId(SeedBeatdown(1)) },
      { generateOldBeatdownId(SeedBeatdown(1)), generateBeatdownId(SeedBeatdown(2)),
        generateBeatdownId(SeedBeatdown(GoneEventId)) },
      { generateBeatdownId(SeedBeatdown(1)), generateBeatdownId(SeedBeatdown(2)),
        generateBeatdownId(SeedBeatdown(GoneEventId)) } }

SeedDoc(id) ==
    IF id = generateOldBeatdownId(SeedBeatdown(1)) THEN AsDoc(SeedBeatdown(1), FALSE)
    ELSE IF id = generateBeatdownId(SeedBeatdown(1))
         THEN [AsDoc(SeedBeatdown(1), TRUE) EXCEPT !.deleted = TRUE, !.deletedAt = TRUE]
    ELSE IF id = generateBeatdownId(SeedBeatdown(2)) THEN AsDoc(SeedBeatdown(2), TRUE)
    ELSE AsDoc(SeedBeatdown(GoneEventId), TRUE)

----------------------------------------------------------------------------
(* What the last operation was, and whether it ended in an error *)

Report(op) == [ op |-> op, error |-> FALSE ]

Failed(op) == [ Report(op) EXCEPT !.error = TRUE ]

Present(events) == { e \in DOMAIN events : events[e] # NoEvent }

\* events whose location is in the location map built from the bulk
\* location fetch; inBulk tells whether /v1/location lists the location
Resolvable(events, locations) ==
    { e \in Present(events) :
        /\ events[e].locationId \in DOMAIN locations
        /\ locations[events[e].locationId] # NoLocation
        /\ locations[events[e].locationId].inBulk }

----------------------------------------------------------------------------
(* syncAllBeatdowns (index.ts): the scheduled full pass *)

SyncBeatdown(events, locations, e) ==
    transformToBeatdown(locations[events[e].locationId], events[e])

\* a slip that leaves out the branch for a stored record without lastUpdated
SyncNeedsWriteContentOnly(existing, e, events, locations) ==
    LET beatdown == SyncBeatdown(events, locations, e)
        docId == generateBeatdownId(beatdown)
    IN  \/ docId \notin DOMAIN existing
        \/ ~beatdownsAreEqual(existing[docId], beatdown)

\* the comparison loop's decision for one normalized record
SyncNeedsWrite(existing, e, events, locations) ==
    LET beatdown == SyncBeatdown(events, locations, e)
        docId == generateBeatdownId(beatdown)
    IN  \/ docId \notin DOMAIN existing
        \/ ~beatdownsAreEqual(existing[docId], beatdown)
        \/ ~existing[docId].lastUpdated

SyncWrites(existing, events, locations) ==
    LET es == SortedSeq({ e \in Resolvable(events, locations) :
                            SyncNeedsWrite(existing, e, events, locations) })
    IN  [ i \in DOMAIN es |->
            [ docId |-> generateBeatdownId(SyncBeatdown(events, locations, es[i])),
              beatdown |-> SyncBeatdown(events, locations, es[i]) ] ]

SyncProcessedIds(events, locations) ==
    { generateBeatdownId(SyncBeatdown(events, locations, e)) :
        e \in Resolvable(events, locations) }

\* a slip that takes the cleanup candidates from the processed ids
SyncDocsToDeleteProcessed(existing, events, locations) ==
    DOMAIN existing \cap SyncProcessedIds(events, locations)

SyncDocsToDelete(existing, events, locations) ==
    DOMAIN existing \ SyncProcessedIds(events, locations)

\* the counters of the summary line
SyncSummary(existing, events, locations) ==
    LET res == Resolvable(events, locations)
        isNew(e) == generateBeatdownId(SyncBeatdown(events, locations, e))
                        \notin DOMAIN existing
        needs(e) == SyncNeedsWrite(existing, e, events, locations)
    IN  [ newBeatdowns |-> Cardinality({ e \in res : isNew(e) }),
          updatedBeatdowns |-> Cardinality({ e \in res : needs(e) /\ ~isNew(e) }),
          skippedUnchanged |-> Cardinality({ e \in res : ~needs(e) }),
          deleted |-> Cardinality(SyncDocsToDelete(existing, events, locations)) ]

SyncAll ==
    LET existing == docs
        writes == SyncWrites(existing, apiEvents, apiLocations)
        toDelete == SyncDocsToDelete(existing, apiEvents, apiLocations)
    IN  /\ docs' = SoftDelete(SetMergeAll(docs, writes, TRUE), toDelete)
        /\ report' = Report("syncAll")
        /\ UNCHANGED <<apiEvents, apiLocations, edits, idA, idB>>

----------------------------------------------------------------------------
(* main of the sync script: full pass with the legacy-id migration branch *)

\* the script's location map: the bulk fetch, then an individual fetch of
\* each location the events reference that the bulk fetch lacks (the first
\* 10 of them; the model has fewer locations)
ScriptResolvable(events, locations) ==
    { e \in Present(events) :
        /\ events[e].locationId \in DOMAIN locations
        /\ locations[events[e].locationId] # NoLocation }

ScriptBeatdown(events, locations, e) ==
    transformEventToBeatdown(events[e], locations[events[e].locationId])

\* the legacy-id lookup finds a document of the same event
ScriptMigrates(existing, beatdown) ==
    /\ generateBeatdownId(beatdown) \notin DOMAIN existing
    /\ generateOldBeatdownId(beatdown) \in DOMAIN existing
    /\ existing[generateOldBeatdownId(beatdown)].eventId = beatdown.eventId

\* a slip that drops needsMigration from the update condition
ScriptNeedsWriteNoForce(existing, beatdown) ==
    LET docId == generateBeatdownId(beatdown)
        matched == IF docId \in DOMAIN existing THEN {existing[docId]}
                   ELSE IF ScriptMigrates(existing, beatdown)
                        THEN {existing[generateOldBeatdownId(beatdown)]}
                        ELSE {}
    IN  \/ matched = {}
        \/ \E m \in matched : ~beatdownsAreEqual(m, beatdown)

\* a slip that merges a legacy document of any event
ScriptNeedsWriteMerging(existing, beatdown) ==
    LET docId == generateBeatdownId(beatdown)
        oldDocId == generateOldBeatdownId(beatdown)
        matched == IF docId \in DOMAIN existing THEN {existing[docId]}
                   ELSE IF oldDocId \in DOMAIN existing THEN {existing[oldDocId]}
                   ELSE {}
    IN  \/ matched = {}
        \/ \E m \in matched : ~beatdownsAreEqual(m, beatdown)

\* new, or matched and (needsMigration or content differs)
ScriptNeedsWrite(existing, beatdown) ==
    LET docId == generateBeatdownId(beatdown)
        needsMigration == ScriptMigrates(existing, beatdown)
        matched == IF docId \in DOMAIN existing THEN {existing[docId]}
                   ELSE IF needsMigration
                        THEN {existing[generateOldBeatdownId(beatdown)]}
                        ELSE {}
    IN  \/ matched = {}
        \/ needsMigration
        \/ \E m \in matched : ~beatdownsAreEqual(m, beatdown)

ScriptIsNew(existing, beatdown) ==
    /\ generateBeatdownId(beatdown) \notin DOMAIN existing
    /\ ~ScriptMigrates(existing, beatdown)

ScriptWrites(existing, events, locations) ==
    LET es == SortedSeq({ e \in ScriptResolvable(events, locations) :
                            ScriptNeedsWrite(existing, ScriptBeatdown(events, locations, e)) })
    IN  [ i \in DOMAIN es |->
            [ docId |-> generateBeatdownId(ScriptBeatdown(events, locations, es[i])),
              beatdown |-> ScriptBeatdown(events, locations, es[i]) ] ]

\* every derived id, plus processedIds.add(oldDocId) of the migration branch
ScriptProcessedIds(existing, events, locations, onlyCleanup) ==
    { generateBeatdownId(ScriptBeatdown(events, locations, e)) :
        e \in IF onlyCleanup THEN Resolvable(events, locations)
              ELSE ScriptResolvable(events, locations) }
    \cup
    { generateOldBeatdownId(ScriptBeatdown(events, locations, e)) :
        e \in { x \in ScriptResolvable(events, locations) :
                  /\ ~onlyCleanup
                  /\ ScriptMigrates(existing, ScriptBeatdown(events, locations, x)) } }

ScriptDocsToDelete(existing, events, locations, onlyCleanup) ==
    DOMAIN existing \ ScriptProcessedIds(existing, events, locations, onlyCleanup)

\* the counters of the summary
ScriptSummary(existing, events, locations) ==
    LET res == ScriptResolvable(events, locations)
        bd(e) == ScriptBeatdown(events, locations, e)
    IN  [ totalBeatdowns |-> Cardinality(res),
          newBeatdowns |-> Cardinality({ e \in res : ScriptIsNew(existing, bd(e)) }),
          updatedBeatdowns |->
              Cardinality({ e \in res : /\ ScriptNeedsWrite(existing, bd(e))
                                        /\ ~ScriptIsNew(existing, bd(e)) }),
          skippedUnchanged |->
              Cardinality({ e \in res : ~ScriptNeedsWrite(existing, bd(e)) }),
          migrationsCount |->
              Cardinality({ e \in res : ScriptMigrates(existing, bd(e)) }) ]

ScriptMain(isDryRun, noCleanup, onlyCleanup) ==
    LET existing == docs
        enableCleanup == onlyCleanup \/ ~noCleanup
        writes == IF onlyCleanup THEN << >>
                  ELSE ScriptWrites(existing, apiEvents, apiLocations)
        toDelete == IF enableCleanup
                    THEN ScriptDocsToDelete(existing, apiEvents, apiLocations, onlyCleanup)
                    ELSE {}
    IN  /\ docs' = IF isDryRun THEN docs
                   ELSE HardDelete(SetMergeAll(docs, writes, FALSE), toDelete)
        /\ report' = Report(IF isDryRun \/ onlyCleanup THEN "scriptMain"
                             ELSE IF noCleanup THEN "scriptMainNoCleanup"
                             ELSE "scriptMainFull")
        /\ UNCHANGED <<apiEvents, apiLocations, edits, idA, idB>>

----------------------------------------------------------------------------
(* Webhook-scoped operations (index.ts) *)

\* db.collection('beatdowns').where('locationId', '==', locationId): a slip
\* that drops the where clause
DocsOfLocationUnscoped(d, locationId) == DOMAIN d

DocsOfLocation(d, locationId) == { x \in DOMAIN d : d[x].locationId = locationId }

DocsOfEvent(d, eventId) == { x \in DOMAIN d : d[x].eventId = eventId }

\* fetchLocationData: events of the list endpoint filtered by locationId
EventsOfLocation(events, locationId) ==
    { e \in Present(events) : events[e].locationId = locationId }

LocationWrites(events, locations, locationId) ==
    LET es == SortedSeq(EventsOfLocation(events, locationId))
    IN  [ i \in DOMAIN es |->
            [ docId |-> generateBeatdownId(
                            transformToBeatdown(locations[locationId], events[es[i]])),
              beatdown |-> transformToBeatdown(locations[locationId], events[es[i]]) ] ]

LocationSaveIds(events, locations, locationId) ==
    { LocationWrites(events, locations, locationId)[i].docId :
        i \in DOMAIN LocationWrites(events, locations, locationId) }

\* existing documents of the location that are not in toSaveDocIds
LocationDocsToDelete(d, events, locations, locationId) ==
    DocsOfLocation(d, locationId) \ LocationSaveIds(events, locations, locationId)

updateLocationBeatdowns(locationId) ==
    IF apiLocations[locationId] = NoLocation
    THEN \* fetchLocationData throws on the HTTP error; nothing is written
         /\ report' = Failed("updateLocation")
         /\ UNCHANGED <<docs, apiEvents, apiLocations, edits, idA, idB>>
    ELSE LET writes == LocationWrites(apiEvents, apiLocations, locationId)
             toDelete == LocationDocsToDelete(docs, apiEvents, apiLocations, locationId)
         IN  /\ docs' = SoftDelete(SetMergeAll(docs, writes, TRUE), toDelete)
             /\ report' = Report("updateLocation")
             /\ UNCHANGED <<apiEvents, apiLocations, edits, idA, idB>>

deleteBeatdownsByLocation(locationId) ==
    /\ docs' = SoftDelete(docs, DocsOfLocation(docs, locationId))
    /\ report' = Report("deleteLocation")
    /\ UNCHANGED <<apiEvents, apiLocations, edits, idA, idB>>

deleteBeatdownsByEvent(eventId) ==
    /\ docs' = SoftDelete(docs, DocsOfEvent(docs, eventId))
    /\ report' = Report("deleteEvent")
    /\ UNCHANGED <<apiEvents, apiLocations, edits, idA, idB>>

\* updateBeatdown: soft delete the document of the old id, then set the new one
updateBeatdown(d, beatdown, existingBeatdown) ==
    LET docId == generateBeatdownId(beatdown)
        existingId == generateBeatdownId(existingBeatdown)
    IN  IF existingId # docId
        THEN SetMerge(SoftDelete(d, {existingId}), docId, beatdown, TRUE)
        ELSE SetMerge(d, docId, beatdown, TRUE)

\* update() of a document that does not exist rejects
updateBeatdownRejects(d, beatdown, existingBeatdown) ==
    /\ generateBeatdownId(existingBeatdown) # generateBeatdownId(beatdown)
    /\ generateBeatdownId(existingBeatdown) \notin DOMAIN d

\* updateEventBeatdown; the query's limit(1) returns any one matching document
updateEventBeatdown(eventId) ==
    IF DocsOfEvent(docs, eventId) = {}
    THEN \* snapshot.empty: return
         /\ report' = Report("updateEvent")
         /\ UNCHANGED <<docs, apiEvents, apiLocations, edits, idA, idB>>
    ELSE \E found \in DocsOfEvent(docs, eventId) :
         LET existingBeatdown == docs[found]
             locationId == existingBeatdown.locationId
         IN  IF \/ apiEvents[eventId] = NoEvent
                \/ locationId \notin LocationIds
                \/ apiLocations[locationId] = NoLocation
             THEN \* fetchEventData / fetchLocationData throw on the HTTP error
                  /\ report' = Failed("updateEvent")
                  /\ UNCHANGED <<docs, apiEvents, apiLocations, edits, idA, idB>>
             ELSE IF apiEvents[eventId].isActive
             THEN LET beatdown == transformToBeatdown(apiLocations[locationId],
                                                      apiEvents[eventId])
                  IN  IF updateBeatdownRejects(docs, beatdown, existingBeatdown)
                      THEN /\ report' = Failed("updateEvent")
                           /\ UNCHANGED <<docs, apiEvents, apiLocations, edits, idA, idB>>
                      ELSE /\ docs' = updateBeatdown(docs, beatdown, existingBeatdown)
                           /\ report' = Report("updateEvent")
                           /\ UNCHANGED <<apiEvents, apiLocations, edits, idA, idB>>
             ELSE \* deleteBeatdownsByEvent
                  /\ docs' = SoftDelete(docs, DocsOfEvent(docs, eventId))
                  /\ report' = Report("updateEvent")
                  /\ UNCHANGED <<apiEvents, apiLocations, edits, idA, idB>>

----------------------------------------------------------------------------
(* The upstream API changes between operations *)

\* which changes the model lets each upstream entity undergo
EditsOfEvent(e) ==
    IF e = 1 THEN {"time", "notes", "address", "location", "active", "presence"}
    ELSE {"name", "location", "presence"}

EditsOfLocation(l) == IF l = 1 THEN {"jitter", "coords", "presence"} ELSE {}

ApiEditEvent(e, kind) ==
    /\ edits < MaxEdits
    /\ kind = "presence" \/ apiEvents[e] # NoEvent
    /\ apiEvents' = [apiEvents EXCEPT ![e] = EditedEvent(@, e, kind)]
    /\ edits' = edits + 1
    /\ report' = Report("apiEdit")
    /\ UNCHANGED <<docs, apiLocations, idA, idB>>

ApiEditLocation(l, kind) ==
    /\ edits < MaxEdits
    /\ kind = "presence" \/ apiLocations[l] # NoLocation
    /\ apiLocations' = [apiLocations EXCEPT ![l] = EditedLocation(@, l, kind)]
    /\ edits' = edits + 1
    /\ report' = Report("apiEdit")
    /\ UNCHANGED <<docs, apiEvents, idA, idB>>

----------------------------------------------------------------------------
(* Specification of the reconciliation system *)

NoProbe == [ region |-> << >>, name |-> << >>, dayOfWeek |-> << >>, eventId |-> 0 ]

\* no fetchWithRetry call under way
NoFetch == [ idle |-> TRUE ]

\* generateJsonCache: all.json holds the documents that are not flagged deleted
generateJsonCache(d) == [ x \in { y \in DOMAIN d : ~d[y].deleted } |-> d[x] ]

\* no adminRerunWebhooks call under way
NoRerun == [ running |-> FALSE, dryRun |-> FALSE, queue |-> << >>, handled |-> << >> ]

Init ==
    /\ \E S \in SeedSets : docs = [ id \in S |-> SeedDoc(id) ]
    /\ apiEvents = [ e \in EventIds |-> BaseEvent(e) ]
    /\ apiLocations = [ l \in LocationIds |-> BaseLocation(l) ]
    /\ report = Report("init")
    /\ edits = 0
    /\ idA = NoProbe
    /\ idB = NoProbe
    /\ webhookLogs = << >>
    /\ fetch = NoFetch
    /\ rerun = NoRerun
    /\ jsonCache = generateJsonCache(docs)

Next ==
    \/ SyncAll /\ UNCHANGED aux
    \/ \E dry \in BOOLEAN, noCleanup \in BOOLEAN, onlyCleanup \in BOOLEAN :
          ScriptMain(dry, noCleanup, onlyCleanup) /\ UNCHANGED aux
    \/ \E l \in LocationIds : updateLocationBeatdowns(l) /\ UNCHANGED aux
    \/ \E l \in LocationIds : deleteBeatdownsByLocation(l) /\ UNCHANGED aux
    \/ \E e \in EventIds : updateEventBeatdown(e) /\ UNCHANGED aux
    \/ \E e \in EventIds : deleteBeatdownsByEvent(e) /\ UNCHANGED aux
    \/ \E e \in EventIds : \E kind \in EditsOfEvent(e) :
          ApiEditEvent(e, kind) /\ UNCHANGED aux
    \/ \E l \in LocationIds : \E kind \in EditsOfLocation(l) :
          ApiEditLocation(l, kind) /\ UNCHANGED aux

Spec == Init /\ [][Next]_vars

----------------------------------------------------------------------------
(* mapWebhook (index.ts): the HTTP handler of the map's notifications.      *)
(* An id of 0 stands for an id the payload does not carry (falsy in the    *)
(* code's tests).  Adding a document to webhookLogs is taken to succeed.    *)

MaxLogs == 2

NoData == [ absent |-> "data" ]

HookMethods == {"POST", "GET"}
HookChannels == {"prod", "dev"}
HookActions == {"map.updated", "map.deleted", "map.created"}

HookPayloads ==
    [ action : HookActions, channel : HookChannels,
      data : {NoData} \cup [ locationId : {0, 1}, eventId : {0, 1} ] ]

\* a slip that stamps actionedAt on every stored log
createWebhookLogStamped(webhookData, actionTaken) ==
    [ action |-> webhookData.action, channel |-> webhookData.channel,
      data |-> webhookData.data, receivedAt |-> TRUE,
      actionedAt |-> TRUE, error |-> FALSE ]

\* createWebhookLog, then actionedAt = serverTimestamp() when actionTaken
createWebhookLog(webhookData, actionTaken) ==
    [ action |-> webhookData.action, channel |-> webhookData.channel,
      data |-> webhookData.data, receivedAt |-> TRUE,
      actionedAt |-> actionTaken, error |-> FALSE ]

\* the errorLog of the handler's catch block
errorLog(body) ==
    [ action |-> body.action, channel |-> body.channel, data |-> body.data,
      receivedAt |-> TRUE, actionedAt |-> FALSE, error |-> TRUE ]

\* a slip that leaves out the test of the channel
HookTargetAnyChannel(webhookData) ==
    IF webhookData.data = NoData THEN "thrown"
    ELSE IF webhookData.action = "map.updated"
         THEN IF webhookData.data.locationId # 0 THEN "updateLocation"
              ELSE IF webhookData.data.eventId # 0 THEN "updateEvent"
              ELSE "ignored"
    ELSE IF webhookData.action = "map.deleted"
         THEN IF webhookData.data.locationId # 0 THEN "deleteLocation"
              ELSE IF webhookData.data.eventId # 0 THEN "deleteEvent"
              ELSE "ignored"
    ELSE "ignored"

\* a slip that tests eventId before locationId
HookTargetEventFirst(webhookData) ==
    IF webhookData.channel # "prod" THEN "ignored"
    ELSE IF webhookData.data = NoData THEN "thrown"
    ELSE IF webhookData.action = "map.updated"
         THEN IF webhookData.data.eventId # 0 THEN "updateEvent"
              ELSE IF webhookData.data.locationId # 0 THEN "updateLocation"
              ELSE "ignored"
    ELSE IF webhookData.action = "map.deleted"
         THEN IF webhookData.data.eventId # 0 THEN "deleteEvent"
              ELSE IF webhookData.data.locationId # 0 THEN "deleteLocation"
              ELSE "ignored"
    ELSE "ignored"

\* which operation the handler's if-chain selects for a payload
HookTarget(webhookData) ==
    IF webhookData.channel # "prod" THEN "ignored"
    ELSE IF webhookData.data = NoData THEN "thrown"
    ELSE IF webhookData.action = "map.updated"
         THEN IF webhookData.data.locationId # 0 THEN "updateLocation"
              ELSE IF webhookData.data.eventId # 0 THEN "updateEvent"
              ELSE "ignored"
    ELSE IF webhookData.action = "map.deleted"
         THEN IF webhookData.data.locationId # 0 THEN "deleteLocation"
              ELSE IF webhookData.data.eventId # 0 THEN "deleteEvent"
              ELSE "ignored"
    ELSE "ignored"

\* a slip that lets the error of the cache regeneration leave the handler
jsonErrorRethrown(threw) == threw

\* catch (jsonError) { console.error(...) }: the error goes no further
jsonErrorEscapes(threw) == FALSE

\* once the selected operation has ended: the cache is regenerated, which
\* may throw, and the handler stores the log
HookStored(body) ==
    \E threw \in BOOLEAN :
        /\ jsonCache' = IF report'.error \/ threw THEN jsonCache
                        ELSE generateJsonCache(docs')
        /\ webhookLogs' = Append(webhookLogs,
                                 IF report'.error \/ jsonErrorEscapes(threw)
                                 THEN errorLog(body)
                                 ELSE createWebhookLog(body, TRUE))

mapWebhook(method, body) ==
    IF method # "POST"
    THEN \* 405: nothing is read, written or logged
         /\ report' = Report("methodNotAllowed")
         /\ UNCHANGED <<docs, apiEvents, apiLocations, edits, idA, idB, webhookLogs,
                        jsonCache>>
    ELSE LET target == HookTarget(body)
         IN  IF target = "updateLocation"
             THEN updateLocationBeatdowns(body.data.locationId) /\ HookStored(body)
             ELSE IF target = "updateEvent"
             THEN updateEventBeatdown(body.data.eventId) /\ HookStored(body)
             ELSE IF target = "deleteLocation"
             THEN deleteBeatdownsByLocation(body.data.locationId) /\ HookStored(body)
             ELSE IF target = "deleteEvent"
             THEN deleteBeatdownsByEvent(body.data.eventId) /\ HookStored(body)
             ELSE IF target = "thrown"
             THEN \* destructuring webhookData.data throws; the catch block logs
                  /\ report' = Failed("mapWebhook")
                  /\ webhookLogs' = Append(webhookLogs, errorLog(body))
                  /\ UNCHANGED <<docs, apiEvents, apiLocations, edits, idA, idB, jsonCache>>
             ELSE \* non-prod channel, unknown action or no id: logged only
                  /\ report' = Report("mapWebhook")
                  /\ webhookLogs' = Append(webhookLogs, createWebhookLog(body, FALSE))
                  /\ UNCHANGED <<docs, apiEvents, apiLocations, edits, idA, idB, jsonCache>>

\* the upstream data a notification may find
UpstreamVariants ==
    { [ events |-> [ e \in EventIds |-> BaseEvent(e) ],
        locations |-> [ l \in LocationIds |-> BaseLocation(l) ] ],
      [ events |-> [ e \in EventIds |->
                       IF e = 1 THEN EditedEvent(BaseEvent(1), 1, "active")
                       ELSE BaseEvent(e) ],
        locations |-> [ l \in LocationIds |-> BaseLocation(l) ] ],
      [ events |-> [ e \in EventIds |-> IF e = 1 THEN NoEvent ELSE BaseEvent(e) ],
        locations |-> [ l \in LocationIds |-> BaseLocation(l) ] ],
      [ events |-> [ e \in EventIds |-> BaseEvent(e) ],
        locations |-> [ l \in LocationIds |->
                          IF l = 1 THEN NoLocation ELSE BaseLocation(l) ] ] }

InitHook ==
    /\ \E S \in SeedSets : docs = [ id \in S |-> SeedDoc(id) ]
    /\ \E u \in UpstreamVariants : apiEvents = u.events /\ apiLocations = u.locations
    /\ report = Report("init")
    /\ edits = 0
    /\ idA = NoProbe
    /\ idB = NoProbe
    /\ webhookLogs = << >>
    /\ fetch = NoFetch
    /\ rerun = NoRerun
    /\ jsonCache = generateJsonCache(docs)

NextHook ==
    \E method \in HookMethods, body \in HookPayloads :
        /\ Len(webhookLogs) < MaxLogs
        /\ mapWebhook(method, body)
        /\ UNCHANGED <<fetch, rerun>>

SpecHook == InitHook /\ [][NextHook]_vars

----------------------------------------------------------------------------
(* adminRerunWebhooks (index.ts): replay of the stored webhook logs *)

Reverse(s) == [ i \in 1..Len(s) |-> s[Len(s) + 1 - i] ]

\* where('timestamp', '>=', afterDate).where('channel', '==', 'prod')
\* .orderBy('timestamp', 'desc'); a log's position in webhookLogs stands for
\* its timestamp
RerunQuery(logs, after) ==
    Reverse(SortedSeq({ i \in DOMAIN logs : i >= after /\ logs[i].channel = "prod" }))

\* a slip that skips every log without an error, actioned or not
RerunSkipsWithoutError(webhookData) == ~webhookData.error

\* if (webhookData.actionedAt && !webhookData.error) continue
RerunSkips(webhookData) == webhookData.actionedAt /\ ~webhookData.error

\* which operation the replay's if-chain selects for a stored log
RerunTarget(webhookData) ==
    IF webhookData.data = NoData THEN "thrown"
    ELSE IF webhookData.action = "map.updated"
         THEN IF webhookData.data.locationId # 0 THEN "updateLocation"
              ELSE IF webhookData.data.eventId # 0 THEN "updateEvent"
              ELSE "none"
    ELSE IF webhookData.action = "map.deleted"
         THEN IF webhookData.data.locationId # 0 THEN "deleteLocation"
              ELSE IF webhookData.data.eventId # 0 THEN "deleteEvent"
              ELSE "none"
    ELSE "none"

\* doc.ref.update({actionedAt, rerunAt, error: FieldValue.delete()})
RerunActioned(webhookData) ==
    [ action |-> webhookData.action, channel |-> webhookData.channel,
      data |-> webhookData.data, receivedAt |-> webhookData.receivedAt,
      actionedAt |-> TRUE, error |-> FALSE, rerunAt |-> TRUE ]

\* doc.ref.update({rerunAt, error: {message, rerunError: true}})
RerunFailed(webhookData) ==
    [ action |-> webhookData.action, channel |-> webhookData.channel,
      data |-> webhookData.data, receivedAt |-> webhookData.receivedAt,
      actionedAt |-> webhookData.actionedAt, error |-> TRUE, rerunAt |-> TRUE,
      rerunError |-> TRUE ]

\* the update of the replayed log once its operation has ended
RerunStored(i) ==
    webhookLogs' = [ webhookLogs EXCEPT
                       ![i] = IF report'.error THEN RerunFailed(@)
                              ELSE RerunActioned(@) ]

\* the call reads its arguments and runs the query
RerunQueried(after, dryRun) ==
    /\ ~rerun.running
    /\ rerun' = [ running |-> TRUE, dryRun |-> dryRun,
                  queue |-> RerunQuery(webhookLogs, after), handled |-> << >> ]
    /\ UNCHANGED <<docs, apiEvents, apiLocations, report, edits, idA, idB,
                   webhookLogs, fetch, jsonCache>>

\* one iteration of for (const doc of webhookLogs.docs)
RerunLog ==
    /\ rerun.running /\ rerun.queue # << >>
    /\ LET i == Head(rerun.queue)
           webhookData == webhookLogs[i]
           target == RerunTarget(webhookData)
       IN  IF RerunSkips(webhookData)
           THEN /\ rerun' = [ rerun EXCEPT !.queue = Tail(@) ]
                /\ report' = Report("rerunSkipped")
                /\ UNCHANGED <<docs, apiEvents, apiLocations, edits, idA, idB,
                               webhookLogs>>
           ELSE /\ rerun' = [ rerun EXCEPT !.queue = Tail(@),
                                           !.handled = Append(@, i) ]
                /\ IF rerun.dryRun
                   THEN /\ report' = Report("rerunDryRun")
                        /\ UNCHANGED <<docs, apiEvents, apiLocations, edits, idA,
                                       idB, webhookLogs>>
                   ELSE IF target = "updateLocation"
                   THEN updateLocationBeatdowns(webhookData.data.locationId)
                        /\ RerunStored(i)
                   ELSE IF target = "updateEvent"
                   THEN updateEventBeatdown(webhookData.data.eventId)
                        /\ RerunStored(i)
                   ELSE IF target = "deleteLocation"
                   THEN deleteBeatdownsByLocation(webhookData.data.locationId)
                        /\ RerunStored(i)
                   ELSE IF target = "deleteEvent"
                   THEN deleteBeatdownsByEvent(webhookData.data.eventId)
                        /\ RerunStored(i)
                   ELSE IF target = "thrown"
                   THEN \* destructuring webhookData.data throws inside the try
                        /\ report' = Failed("rerun")
                        /\ RerunStored(i)
                        /\ UNCHANGED <<docs, apiEvents, apiLocations, edits, idA, idB>>
                   ELSE \* unknown action or no id: the log is marked all the same
                        /\ report' = Report("rerun")
                        /\ RerunStored(i)
                        /\ UNCHANGED <<docs, apiEvents, apiLocations, edits, idA, idB>>
    /\ UNCHANGED <<fetch, jsonCache>>

\* the loop has ended: the call returns its results
RerunReturned ==
    /\ rerun.running /\ rerun.queue = << >>
    /\ report' = [ op |-> "adminRerunWebhooks", error |-> FALSE,
                   dryRun |-> rerun.dryRun, results |-> rerun.handled ]
    /\ rerun' = NoRerun
    /\ UNCHANGED <<docs, apiEvents, apiLocations, edits, idA, idB, webhookLogs, fetch,
                   jsonCache>>

\* the notifications that arrive around a replay: the production ones of
\* every kind the replay tells apart, and one of another channel
RerunPayloads ==
    { body \in HookPayloads :
        /\ body.action \in {"map.updated", "map.deleted"}
        /\ \/ body.data = NoData /\ body.action = "map.updated"
           \/ body.data # NoData /\ body.data.locationId + body.data.eventId = 1
           \/ body.data # NoData /\ body.data.locationId + body.data.eventId = 0
                /\ body.action = "map.updated"
        /\ \/ body.channel = "prod"
           \/ body.action = "map.updated" /\ body.data # NoData
                /\ body.data.locationId = 1 }

\* a replay finds the upstream data complete or without location 1, and the
\* collection empty or holding documents under current ids
InitRerun ==
    /\ \E S \in { T \in SeedSets : generateOldBeatdownId(SeedBeatdown(1)) \notin T } :
          docs = [ id \in S |-> SeedDoc(id) ]
    /\ \E u \in { v \in UpstreamVariants : \A e \in EventIds : v.events[e] = BaseEvent(e) } :
          apiEvents = u.events /\ apiLocations = u.locations
    /\ report = Report("init")
    /\ edits = 0
    /\ idA = NoProbe
    /\ idB = NoProbe
    /\ webhookLogs = << >>
    /\ fetch = NoFetch
    /\ rerun = NoRerun
    /\ jsonCache = generateJsonCache(docs)

NextRerun ==
    \/ \E body \in RerunPayloads :
          /\ ~rerun.running
          /\ Len(webhookLogs) < MaxLogs
          /\ mapWebhook("POST", body)
          /\ UNCHANGED <<fetch, rerun>>
    \/ \E after \in 1..MaxLogs, dryRun \in BOOLEAN : RerunQueried(after, dryRun)
    \/ RerunLog
    \/ RerunReturned
    \/ ~rerun.running /\ ApiEditLocation(1, "presence") /\ UNCHANGED aux

SpecRerun == InitRerun /\ [][NextRerun]_vars

----------------------------------------------------------------------------
(* fetchWithRetry (index.ts and the sync script): one call, one request per *)
(* step.  A response is "ok", "429", another HTTP error ("http"), an HTTP   *)
(* error whose status text holds the words "Rate limit"                     *)
(* ("httpRateLimitText"), or no response at all ("network").                *)

maxRetries == 3

FetchResponses == {"ok", "429", "http", "httpRateLimitText", "network"}

FetchImpls == {"sync", "script"}

\* a slip that compares with <= where the code has <
ShouldRetryInclusive(retryCount) == retryCount <= maxRetries

\* retryCount < maxRetries
ShouldRetry(retryCount) == retryCount < maxRetries

\* what one call does with a response: "return" the data, "retry" by calling
\* itself with retryCount + 1 (whose result it returns without awaiting, so
\* its own catch never sees the inner call's error), or "throw"
FetchDecision(impl, response, retryCount) ==
    IF response = "ok" THEN "return"
    ELSE IF response = "429"
         THEN IF ShouldRetry(retryCount) THEN "retry" ELSE "throw"
    ELSE IF impl = "sync" /\ response = "httpRateLimitText"
         THEN \* the catch retries an error whose message includes 'Rate limit'
              IF ShouldRetry(retryCount) THEN "retry" ELSE "throw"
    ELSE "throw"

----------------------------------------------------------------------------
(* A full pass step by step: the fetch of the events, the fetch of the      *)
(* locations, then the commits of the write batches and the delete batches. *)

\* 500 in the code; scaled to the size of the model's collection so that a
\* pass has several batches
BATCH_SIZE == 1

\* document ids come back from Firestore in the order of their bytes
IdCharOrder == <<"-">> \o DigitChars \o LowerChars

IdCharRank == [ c \in IdChars |-> CHOOSE i \in DOMAIN IdCharOrder : IdCharOrder[i] = c ]

RECURSIVE IdLess(_, _)
IdLess(a, b) ==
    IF Len(a) = 0 THEN Len(b) > 0
    ELSE IF Len(b) = 0 THEN FALSE
    ELSE IF a[1] = b[1] THEN IdLess(Tail(a), Tail(b))
    ELSE IdCharRank[a[1]] < IdCharRank[b[1]]

RECURSIVE SortedIds(_)
SortedIds(S) ==
    IF S = {} THEN << >>
    ELSE LET m == CHOOSE x \in S : \A y \in S \ {x} : IdLess(x, y)
         IN  << m >> \o SortedIds(S \ {m})

\* a slip that stops before an incomplete last chunk (i + size <= length)
RECURSIVE chunkArrayFullOnly(_, _)
chunkArrayFullOnly(array, size) ==
    IF Len(array) < size THEN << >>
    ELSE << SubSeq(array, 1, size) >>
            \o chunkArrayFullOnly(SubSeq(array, size + 1, Len(array)), size)

RECURSIVE chunkArray(_, _)
chunkArray(array, size) ==
    IF Len(array) = 0 THEN << >>
    ELSE IF Len(array) <= size THEN << array >>
    ELSE << SubSeq(array, 1, size) >>
            \o chunkArray(SubSeq(array, size + 1, Len(array)), size)

SyncWriteBatches(existing, events, locations) ==
    chunkArray(SyncWrites(existing, events, locations), BATCH_SIZE)

SyncDeleteBatches(existing, events, locations) ==
    chunkArray(SortedIds(SyncDocsToDelete(existing, events, locations)), BATCH_SIZE)

\* the first n write batches committed
RECURSIVE CommitWrites(_, _, _)
CommitWrites(d, batches, n) ==
    IF n = 0 \/ Len(batches) = 0 THEN d
    ELSE CommitWrites(SetMergeAll(d, batches[1], TRUE), Tail(batches), n - 1)

\* the first n soft-delete batches committed
RECURSIVE CommitDeletes(_, _, _)
CommitDeletes(d, batches, n) ==
    IF n = 0 \/ Len(batches) = 0 THEN d
    ELSE CommitDeletes(SoftDelete(d, Range(batches[1])), Tail(batches), n - 1)

\* the collection after the first k commits of a pass
SyncCommitted(existing, events, locations, k) ==
    LET writeBatches == SyncWriteBatches(existing, events, locations)
        deleteBatches == SyncDeleteBatches(existing, events, locations)
        nWrites == IF k < Len(writeBatches) THEN k ELSE Len(writeBatches)
    IN  CommitDeletes(CommitWrites(existing, writeBatches, nWrites),
                      deleteBatches, k - nWrites)

SyncBatchCount(existing, events, locations) ==
    Len(SyncWriteBatches(existing, events, locations))
        + Len(SyncDeleteBatches(existing, events, locations))

PassOp(impl) == IF impl = "sync" THEN "syncAll" ELSE "scriptMain"

\* a slip that goes on with the pass when the fetch of the locations throws
AfterFetchSwallowing(url, decision) ==
    IF decision = "retry" THEN url
    ELSE IF decision = "throw" THEN (IF url = "locations" THEN "fetched" ELSE "aborted")
    ELSE IF url = "events" THEN "locations" ELSE "fetched"

\* where the pass stands once a call has dealt with a response
AfterFetch(url, decision) ==
    IF decision = "retry" THEN url
    ELSE IF decision = "throw" THEN "aborted"
    ELSE IF url = "events" THEN "locations" ELSE "fetched"

Fetching == fetch # NoFetch /\ fetch.url \in {"events", "locations"}

StartPass(impl) ==
    /\ fetch = NoFetch
    /\ fetch' = [ impl |-> impl, url |-> "events", retryCount |-> 0,
                  requests |-> 0, last |-> "none",
                  \* the collection as the pass read it before fetching
                  existing |-> docs ]
    /\ UNCHANGED <<docs, apiEvents, apiLocations, report, edits, idA, idB, webhookLogs, rerun, jsonCache>>

FetchAttempt(response) ==
    /\ Fetching
    /\ LET decision == FetchDecision(fetch.impl, response, fetch.retryCount)
           next == AfterFetch(fetch.url, decision)
       IN  IF next = "aborted"
           THEN \* the error leaves the pass through its catch block
                /\ fetch' = NoFetch
                /\ report' = [ op |-> PassOp(fetch.impl), error |-> TRUE,
                               failedAt |-> fetch.url, response |-> response,
                               requests |-> fetch.requests + 1 ]
           ELSE /\ fetch' = [ fetch EXCEPT
                                !.url = next,
                                !.retryCount = IF decision = "retry" THEN @ + 1 ELSE 0,
                                !.requests = IF next = fetch.url THEN @ + 1 ELSE 0,
                                !.last = response ]
                /\ UNCHANGED report
    /\ UNCHANGED <<docs, apiEvents, apiLocations, edits, idA, idB, webhookLogs, rerun, jsonCache>>

\* a commit fails after k of the pass's batches were committed
SyncAllInterrupted(k) ==
    /\ fetch # NoFetch /\ fetch.url = "fetched" /\ fetch.impl = "sync"
    /\ k < SyncBatchCount(docs, apiEvents, apiLocations)
    /\ docs' = SyncCommitted(docs, apiEvents, apiLocations, k)
    /\ report' = [ op |-> "syncAll", error |-> TRUE, failedAt |-> "commit",
                   committed |-> k,
                   uninterrupted |->
                       SyncCommitted(docs, apiEvents, apiLocations,
                                     SyncBatchCount(docs, apiEvents, apiLocations)) ]
    /\ fetch' = NoFetch
    /\ UNCHANGED <<apiEvents, apiLocations, edits, idA, idB, webhookLogs, rerun, jsonCache>>

SyncAllCompleted ==
    /\ fetch # NoFetch /\ fetch.url = "fetched" /\ fetch.impl = "sync"
    /\ SyncAll
    /\ fetch' = NoFetch
    /\ UNCHANGED <<webhookLogs, rerun, jsonCache>>

ScriptMainCompleted(noCleanup) ==
    /\ fetch # NoFetch /\ fetch.url = "fetched" /\ fetch.impl = "script"
    /\ ScriptMain(FALSE, noCleanup, FALSE)
    /\ fetch' = NoFetch
    /\ UNCHANGED <<webhookLogs, rerun, jsonCache>>

\* the upstream data a pass may find: all there; event 2 at a location that
\* is gone; event 2 at a location the bulk fetch does not list; event 1 gone
PassVariants ==
    LET moved == [ e \in EventIds |->
                     IF e = 2 THEN EditedEvent(BaseEvent(2), 2, "location")
                     ELSE BaseEvent(e) ]
    IN  { [ events |-> [ e \in EventIds |-> BaseEvent(e) ],
            locations |-> [ l \in LocationIds |-> BaseLocation(l) ] ],
          [ events |-> moved,
            locations |-> [ l \in LocationIds |->
                              IF l = 2 THEN NoLocation ELSE BaseLocation(l) ] ],
          [ events |-> moved,
            locations |-> [ l \in LocationIds |->
                              IF l = 2 THEN [BaseLocation(2) EXCEPT !.inBulk = FALSE]
                              ELSE BaseLocation(l) ] ],
          [ events |-> [ e \in EventIds |-> IF e = 1 THEN NoEvent ELSE BaseEvent(e) ],
            locations |-> [ l \in LocationIds |-> BaseLocation(l) ] ] }

InitPass ==
    /\ \E S \in SeedSets : docs = [ id \in S |-> SeedDoc(id) ]
    /\ \E u \in PassVariants : apiEvents = u.events /\ apiLocations = u.locations
    /\ report = Report("init")
    /\ edits = 0
    /\ idA = NoProbe
    /\ idB = NoProbe
    /\ webhookLogs = << >>
    /\ fetch = NoFetch
    /\ rerun = NoRerun
    /\ jsonCache = generateJsonCache(docs)

NextPass ==
    \/ \E impl \in FetchImpls : StartPass(impl)
    \/ \E response \in FetchResponses : FetchAttempt(response)
    \/ \E k \in 0..(SyncBatchCount(docs, apiEvents, apiLocations) - 1) : SyncAllInterrupted(k)
    \/ SyncAllCompleted
    \/ \E noCleanup \in BOOLEAN : ScriptMainCompleted(noCleanup)

SpecPass == InitPass /\ [][NextPass]_vars

\* every request of a call is answered: fetch and axios.get resolve or reject
FairSpecPass ==
    SpecPass /\ WF_vars(\E response \in FetchResponses : FetchAttempt(response))


----------------------------------------------------------------------------
(* A full pass of syncAllBeatdowns that overlaps webhook-triggered updates   *)

\* a slip that reads the collection again when the cleanup starts
PassSnapshotAtCleanup == docs

\* existingBeatdowns: the collection as the pass read it when it started
PassSnapshot == fetch.existing

\* the pass compares, writes and cleans up against its snapshot, whatever
\* other operations have stored since
SyncAllOverlapped ==
    /\ fetch # NoFetch /\ fetch.url = "fetched" /\ fetch.impl = "sync"
    /\ LET writes == SyncWrites(fetch.existing, apiEvents, apiLocations)
           toDelete == SyncDocsToDelete(PassSnapshot, apiEvents, apiLocations)
       IN  docs' = SoftDelete(SetMergeAll(docs, writes, TRUE), toDelete)
    /\ report' = Report("syncAll")
    /\ fetch' = NoFetch
    /\ UNCHANGED <<apiEvents, apiLocations, edits, idA, idB, webhookLogs, rerun, jsonCache>>

\* a pass is under way: it has read its snapshot and has not ended
PassUnderWay == fetch # NoFetch

NextOverlap ==
    \/ StartPass("sync")
    \/ \E response \in FetchResponses : FetchAttempt(response)
    \/ \E l \in LocationIds :
          PassUnderWay /\ updateLocationBeatdowns(l) /\ UNCHANGED aux
    \/ \E l \in LocationIds :
          PassUnderWay /\ deleteBeatdownsByLocation(l) /\ UNCHANGED aux
    \/ SyncAllOverlapped

SpecOverlap == InitPass /\ [][NextOverlap]_vars

----------------------------------------------------------------------------
(* The sync script run from the command line with its flags                 *)

\* locations the upstream events reference that no stored document carries
AnalyzeAdded(d, events) ==
    { events[e].locationId : e \in Present(events) } \ { d[x].locationId : x \in DOMAIN d }

\* fetchAndProcessLocation for the added locations: the location of the bulk
\* fetch or, failing that, of an individual fetch; none when that fetch fails
AnalyzeBeatdowns(d, events, locations) ==
    { transformEventToBeatdown(events[e], locations[events[e].locationId]) :
        e \in { f \in Present(events) :
                  /\ events[f].locationId \in AnalyzeAdded(d, events)
                  /\ events[f].locationId \in DOMAIN locations
                  /\ locations[events[f].locationId] # NoLocation } }

\* analyzeLocationChanges: batch.set(docRef, beatdown) replaces the document;
\* it takes no flag and never looks at --dry-run
analyzeLocationChanges ==
    LET beatdowns == AnalyzeBeatdowns(docs, apiEvents, apiLocations)
        ids == { generateBeatdownId(b) : b \in beatdowns }
    IN  /\ docs' = [ x \in DOMAIN docs \cup ids |->
                       IF x \in ids
                       THEN AsDoc(CHOOSE b \in beatdowns : generateBeatdownId(b) = x, FALSE)
                       ELSE docs[x] ]
        /\ report' = Report("scriptAnalyze")
        /\ UNCHANGED <<apiEvents, apiLocations, edits, idA, idB>>

\* main with its command line flags: --analyze returns before the sync
ScriptRun(isAnalysisMode, isDryRun, noCleanup, onlyCleanup) ==
    IF isAnalysisMode THEN analyzeLocationChanges
    ELSE ScriptMain(isDryRun, noCleanup, onlyCleanup)

NextScript ==
    \E isAnalysisMode \in BOOLEAN, isDryRun \in BOOLEAN,
       noCleanup \in BOOLEAN, onlyCleanup \in BOOLEAN :
        ScriptRun(isAnalysisMode, isDryRun, noCleanup, onlyCleanup) /\ UNCHANGED aux

SpecScript == InitPass /\ [][NextScript]_vars

----------------------------------------------------------------------------
(* Specification of the identity deriver alone: two records with different  *)
(* event ids, drawn from strings that exercise the normalization            *)

ProbeRegions == { << >>, <<"R","-">> }
ProbeNames == { << >>, <<"G","o">>, <<"g","o"," ","1">>, <<"-">>, <<"_","1">>, <<"G","o","-">> }
ProbeDays == { Monday, << >>, <<"1">> }

ProbeRecords ==
    [ region : ProbeRegions, name : ProbeNames, dayOfWeek : ProbeDays,
      eventId : 0..MaxProbeEventId ]

InitId ==
    /\ docs = << >>
    /\ apiEvents = [ e \in EventIds |-> NoEvent ]
    /\ apiLocations = [ l \in LocationIds |-> NoLocation ]
    /\ report = Report("probe")
    /\ edits = 0
    /\ idA \in ProbeRecords
    /\ idB \in ProbeRecords
    /\ idA.eventId < idB.eventId
    /\ webhookLogs = << >>
    /\ fetch = NoFetch
    /\ rerun = NoRerun
    /\ jsonCache = generateJsonCache(docs)

DeriveIds ==
    /\ report.op = "probe"
    /\ report' = [ op |-> "deriveIds",
                   a |-> generateBeatdownId(idA), b |-> generateBeatdownId(idB) ]
    /\ UNCHANGED <<docs, apiEvents, apiLocations, edits, idA, idB>>
    /\ UNCHANGED aux

NextId == DeriveIds

SpecId == InitId /\ [][NextId]_vars

----------------------------------------------------------------------------
(* Specification of the pure functions alone: one input drawn from values  *)
(* that exercise the function, one step that applies it                     *)

Degree == 1000000

\* whole degrees, the poles included
ProbeLatitudes == {0, 45 * Degree, 89 * Degree, 90 * Degree, -90 * Degree}

ProbeLongitudes == {0, -116 * Degree}

\* differences around the rounding step (5), the rounding precision (50),
\* ten meters (90.09) and one degree
ProbeOffsets == {-Degree, -91, -90, -51, -50, -5, 0, 4, 50, 64, 90, 91, Degree}

CoordinateInputs ==
    { c \in [ fn : {"coordinatesAreEqual"},
              lat1 : ProbeLatitudes, long1 : ProbeLongitudes,
              dLat : ProbeOffsets, dLong : ProbeOffsets ] :
        Abs(c.lat1 + c.dLat) <= 90 * Degree }

RiverCity == <<"R","i","v","e","r"," ","C","i","t","y">>
Gauntlet == <<"G","a","u","n","t","l","e","t">>

\* records for the two id schemes: the probe strings of the identity
\* deriver, the spec's example, and a name with runs of special characters
IdInputs ==
    [ fn : {"generateBeatdownId", "generateOldBeatdownId"},
      region : ProbeRegions \cup {RiverCity},
      name : ProbeNames \cup {Gauntlet, <<"-"," "," ","A",",",",","b","_">>},
      dayOfWeek : ProbeDays,
      eventId : 0..MaxProbeEventId ]

\* a stored document under the current id of event 1 whose identity fields
\* and notes may differ from what upstream has now
StoredInputs ==
    [ fn : {"syncAll"}, locationId : {1, 2, 7}, eventId : {1, 2},
      notes : {<< >>, NotesHi}, lastUpdated : BOOLEAN ]

StoredProbe(in) ==
    LET b == transformToBeatdown(BaseLocation(1), BaseEvent(1))
    IN  [ x \in {generateBeatdownId(b)} |->
            [AsDoc(b, in.lastUpdated) EXCEPT !.locationId = in.locationId,
                                             !.eventId = in.eventId,
                                             !.notes = in.notes] ]

MaxChunkLen == 6
MaxChunkSize == 4

\* lists of distinct items and chunk sizes
ChunkInputs ==
    [ fn : {"chunkArray"},
      array : { [ i \in 1..n |-> i ] : n \in 0..MaxChunkLen },
      size : 1..MaxChunkSize ]

\* the four digits of a time of day
TimeDigits(hour, minute) ==
    << DigitChars[(hour \div 10) + 1], DigitChars[(hour % 10) + 1],
       DigitChars[(minute \div 10) + 1], DigitChars[(minute % 10) + 1] >>

\* a start time written with its first `strip` zeros left out (all four left
\* out: no start time), and an end time
TimeInputs ==
    { t \in [ fn : {"formatTime"}, hour : 0..23, minute : {0, 5, 30, 59},
              strip : 0..4, endTime : {<< >>, Time0615, Time1200} ] :
        \A i \in 1..t.strip : TimeDigits(t.hour, t.minute)[i] = "0" }

StartTimeOf(t) == SubSeq(TimeDigits(t.hour, t.minute), t.strip + 1, 4)

\* a location with or without a description, and an event with or without
\* a description, a name, an address string and a region of its own
NormalizerInputs ==
    [ fn : {"transform"}, locationId : LocationIds, locationNotes : {<< >>, NotesHi},
      eventId : EventIds, description : {<< >>, <<"g","o">>},
      name : {<< >>, NameGo}, location : {<< >>, Addr1A} ]

LocationOf(in) == [BaseLocation(in.locationId) EXCEPT !.description = in.locationNotes]

EventOf(in) ==
    [BaseEvent(in.eventId) EXCEPT !.locationId = in.locationId,
                                  !.description = in.description,
                                  !.name = in.name,
                                  !.location = in.location]

FnInputs ==
    CoordinateInputs \cup IdInputs \cup StoredInputs \cup ChunkInputs \cup TimeInputs
        \cup NormalizerInputs

InitFn ==
    /\ idA \in FnInputs
    /\ idB = NoProbe
    /\ IF idA.fn = "syncAll"
       THEN /\ docs = StoredProbe(idA)
            /\ apiEvents = [ e \in EventIds |-> BaseEvent(e) ]
            /\ apiLocations = [ l \in LocationIds |-> BaseLocation(l) ]
       ELSE /\ docs = << >>
            /\ apiEvents = [ e \in EventIds |-> NoEvent ]
            /\ apiLocations = [ l \in LocationIds |-> NoLocation ]
    /\ report = Report("probe")
    /\ edits = 0
    /\ webhookLogs = << >>
    /\ fetch = NoFetch
    /\ rerun = NoRerun
    /\ jsonCache = generateJsonCache(docs)

Applied(fn, result) ==
    /\ report.op = "probe"
    /\ idA.fn = fn
    /\ report' = [ op |-> fn, result |-> result ]
    /\ UNCHANGED <<docs, apiEvents, apiLocations, edits, idA, idB>>
    /\ UNCHANGED aux

ApplyCoordinatesAreEqual ==
    /\ idA.fn = "coordinatesAreEqual"
    /\ Applied("coordinatesAreEqual",
               coordinatesAreEqual(idA.lat1, idA.long1,
                                   idA.lat1 + idA.dLat, idA.long1 + idA.dLong))

ApplyGenerateBeatdownId ==
    /\ idA.fn = "generateBeatdownId"
    /\ Applied("generateBeatdownId", generateBeatdownId(idA))

ApplyGenerateOldBeatdownId ==
    /\ idA.fn = "generateOldBeatdownId"
    /\ Applied("generateOldBeatdownId", generateOldBeatdownId(idA))

ApplySyncAll ==
    /\ idA.fn = "syncAll"
    /\ report.op = "probe"
    /\ SyncAll
    /\ UNCHANGED aux

ApplyChunkArray ==
    /\ idA.fn = "chunkArray"
    /\ Applied("chunkArray", chunkArray(idA.array, idA.size))

ApplyFormatTime ==
    /\ idA.fn = "formatTime"
    /\ Applied("formatTime",
               [ start |-> formatTime(StartTimeOf(idA)),
                 end |-> formatTime(idA.endTime),
                 timeString |->
                     transformToBeatdown(
                         BaseLocation(1),
                         [BaseEvent(1) EXCEPT !.startTime = StartTimeOf(idA),
                                              !.endTime = idA.endTime]).timeString ])

\* both normalizers applied to one (location, event) pair
ApplyNormalizers ==
    /\ idA.fn = "transform"
    /\ Applied("transform",
               [ script |-> transformEventToBeatdown(EventOf(idA), LocationOf(idA)),
                 cloud |-> transformToBeatdown(LocationOf(idA), EventOf(idA)) ])

NextFn ==
    \/ ApplyCoordinatesAreEqual
    \/ ApplyGenerateBeatdownId
    \/ ApplyGenerateOldBeatdownId
    \/ ApplySyncAll
    \/ ApplyChunkArray
    \/ ApplyFormatTime
    \/ ApplyNormalizers

SpecFn == InitFn /\ [][NextFn]_vars

----------------------------------------------------------------------------
(* Properties *)

IdsOf(writes) == { writes[i].docId : i \in DOMAIN writes }

LegacySeedId == generateOldBeatdownId(SeedBeatdown(1))
CurrentId(e) == generateBeatdownId(SeedBeatdown(e))

\* C1: a full pass that directly follows a full pass of the same kind, with
\* nothing changed upstream in between, queues no write and no deletion.
C1_SecondPassIdle ==
    [][ /\ (report.op = "syncAll" /\ report'.op = "syncAll" /\ SyncAll) =>
              /\ SyncWrites(docs, apiEvents, apiLocations) = << >>
              /\ SyncDocsToDelete(docs, apiEvents, apiLocations) = {}
        /\ ( /\ report.op = "scriptMainFull" /\ report'.op = "scriptMainFull"
             /\ ScriptMain(FALSE, FALSE, FALSE) ) =>
              /\ ScriptWrites(docs, apiEvents, apiLocations) = << >>
              /\ ScriptDocsToDelete(docs, apiEvents, apiLocations, FALSE) = {}
      ]_vars

\* C2: in a full sync, every stored id outside the processed set ends up
\* soft-deleted, and every stored id inside it whose content is unchanged
\* and which has lastUpdated is neither written nor changed.
C2_CleanupPartition ==
    [][ (report'.op = "syncAll" /\ SyncAll) =>
          \A d \in DOMAIN docs :
            LET processed == { e \in Resolvable(apiEvents, apiLocations) :
                                 generateBeatdownId(
                                   SyncBeatdown(apiEvents, apiLocations, e)) = d }
            IN  /\ processed = {} =>
                      /\ d \in DOMAIN docs'
                      /\ docs'[d].deleted /\ docs'[d].deletedAt
                      /\ d \in SyncDocsToDelete(docs, apiEvents, apiLocations)
                /\ ( /\ processed # {}
                     /\ docs[d].lastUpdated
                     /\ \A e \in processed :
                          beatdownsAreEqual(docs[d],
                                            SyncBeatdown(apiEvents, apiLocations, e)) )
                   => /\ d \in DOMAIN docs' /\ docs'[d] = docs[d]
                      /\ d \notin IdsOf(SyncWrites(docs, apiEvents, apiLocations))
                      /\ d \notin SyncDocsToDelete(docs, apiEvents, apiLocations)
      ]_vars

\* a full sync has soft-deleted the orphan and left a processed document alone
C2_Witness ==
    /\ report.op = "syncAll"
    /\ CurrentId(GoneEventId) \in DOMAIN docs
    /\ docs[CurrentId(GoneEventId)].deleted
    /\ CurrentId(2) \in DOMAIN docs
    /\ ~docs[CurrentId(2)].deleted

\* C3: a pass that processes an upstream event whose stored document is
\* soft-deleted leaves that document not flagged deleted.
C3_RevivedOnReappear ==
    [][ /\ (report'.op = "syncAll" /\ SyncAll) =>
              \A e \in Resolvable(apiEvents, apiLocations) :
                LET d == generateBeatdownId(SyncBeatdown(apiEvents, apiLocations, e))
                IN  (d \in DOMAIN docs /\ docs[d].deleted) => ~docs'[d].deleted
        /\ \A l \in LocationIds :
              ( /\ report'.op = "updateLocation" /\ ~report'.error
                /\ updateLocationBeatdowns(l) ) =>
                 \A d \in LocationSaveIds(apiEvents, apiLocations, l) :
                    (d \in DOMAIN docs /\ docs[d].deleted) => ~docs'[d].deleted
      ]_vars

\* C4: no operation removes from the collection a document stored under its
\* current-scheme id.
C4_NeverHardDeleted ==
    [][ \A x \in DOMAIN docs :
          x = generateBeatdownId(docs[x]) => x \in DOMAIN docs' ]_vars

\* C5: when the stored current-scheme document of an upstream event agrees
\* with the fresh record on region, name, day and event id, the full sync
\* keeps the event under that id: the fresh content is there after the pass,
\* no new document appears for the event, and if that holds of every
\* upstream event the number of documents is unchanged.
SameIdentity(a, b) ==
    /\ a.region = b.region /\ a.name = b.name
    /\ a.dayOfWeek = b.dayOfWeek /\ a.eventId = b.eventId

StoredFor(d, e) ==
    /\ e \in Resolvable(apiEvents, apiLocations)
    /\ d \in DOMAIN docs
    /\ d = generateBeatdownId(docs[d])
    /\ SameIdentity(docs[d], SyncBeatdown(apiEvents, apiLocations, e))

C5_UpdateInPlace ==
    [][ (report'.op = "syncAll" /\ SyncAll) =>
          /\ \A e \in EventIds : \A d \in DOMAIN docs :
                StoredFor(d, e) =>
                  /\ generateBeatdownId(SyncBeatdown(apiEvents, apiLocations, e)) = d
                  /\ d \in DOMAIN docs'
                  /\ beatdownsAreEqual(docs'[d], SyncBeatdown(apiEvents, apiLocations, e))
                  /\ \A x \in DOMAIN docs' \ DOMAIN docs : docs'[x].eventId # e
          /\ (\A e \in Present(apiEvents) : \E d \in DOMAIN docs : StoredFor(d, e))
                => Cardinality(DOMAIN docs') = Cardinality(DOMAIN docs)
      ]_vars

\* event 1 changed its time upstream and the full sync rewrote its document
\* under the unchanged id
C5_Witness ==
    /\ report.op = "syncAll"
    /\ CurrentId(1) \in DOMAIN docs
    /\ docs[CurrentId(1)].timeString =
          formatTime(Time1200) \o <<" ","-"," ">> \o formatTime(Time0615)
    /\ \A d \in DOMAIN docs : docs[d].eventId = 1 /\ d # LegacySeedId => d = CurrentId(1)

\* C6: two records with different event ids never derive the same
\* current-scheme document id.
C6_DistinctEventsDistinctIds ==
    report.op = "deriveIds" => report.a # report.b

\* ids were derived for two records that agree on region, name and day
C6_Witness ==
    /\ report.op = "deriveIds"
    /\ idA.region = idB.region /\ idA.name = idB.name /\ idA.dayOfWeek = idB.dayOfWeek
    /\ idA.eventId # idB.eventId

\* C7: in a run of the script that writes, every fresh record with no stored
\* document under its current id but one under its legacy id with the same
\* eventId is counted once in migrationsCount and is written under its
\* current id, equivalent content or not.
MigratingEvents ==
    { e \in ScriptResolvable(apiEvents, apiLocations) :
        LET beatdown == ScriptBeatdown(apiEvents, apiLocations, e)
            oldDocId == generateOldBeatdownId(beatdown)
        IN  /\ generateBeatdownId(beatdown) \notin DOMAIN docs
            /\ oldDocId \in DOMAIN docs
            /\ docs[oldDocId].eventId = e }

MigrationsWritten ==
    /\ ScriptSummary(docs, apiEvents, apiLocations).migrationsCount
          = Cardinality(MigratingEvents)
    /\ \A e \in MigratingEvents :
          LET beatdown == ScriptBeatdown(apiEvents, apiLocations, e)
              docId == generateBeatdownId(beatdown)
          IN  /\ docId \in IdsOf(ScriptWrites(docs, apiEvents, apiLocations))
              /\ docId \in DOMAIN docs'
              /\ docs'[docId] = AsDoc(beatdown, FALSE)

C7_MigrationForcesWrite ==
    [][ /\ (report'.op = "scriptMainFull" /\ ScriptMain(FALSE, FALSE, FALSE))
              => MigrationsWritten
        /\ (report'.op = "scriptMainNoCleanup" /\ ScriptMain(FALSE, TRUE, FALSE))
              => MigrationsWritten
      ]_vars

\* the script has written event 1 under its current id while the equivalent
\* legacy document of event 1 was stored
C7_Witness ==
    /\ report.op = "scriptMainFull"
    /\ LegacySeedId \in DOMAIN docs
    /\ docs[LegacySeedId].eventId = 1
    /\ CurrentId(1) \in DOMAIN docs
    /\ ~docs[CurrentId(1)].lastUpdated
    /\ beatdownsAreEqual(docs[LegacySeedId], docs[CurrentId(1)])

\* C8: in a full run of the script, the legacy id of every migrated record is
\* among the ids the cleanup of that run removes.
C8_OldIdIsCleanupCandidate ==
    [][ (report'.op = "scriptMainFull" /\ ScriptMain(FALSE, FALSE, FALSE)) =>
          \A e \in MigratingEvents :
            generateOldBeatdownId(ScriptBeatdown(apiEvents, apiLocations, e))
              \in ScriptDocsToDelete(docs, apiEvents, apiLocations, FALSE)
      ]_vars

\* C9: when two upstream events with different eventIds share a legacy id
\* under which a document is stored, a run of the script that writes leaves
\* two documents under two distinct current ids, one per event, writes
\* neither of them to the legacy id, and leaves the legacy document, where
\* it stays in the collection, as it was.
CollidingKept(noCleanup) ==
    \A e1, e2 \in ScriptResolvable(apiEvents, apiLocations) :
      LET b1 == ScriptBeatdown(apiEvents, apiLocations, e1)
          b2 == ScriptBeatdown(apiEvents, apiLocations, e2)
          legacy == generateOldBeatdownId(b1)
          id1 == generateBeatdownId(b1)
          id2 == generateBeatdownId(b2)
      IN  ( /\ e1 # e2
            /\ generateOldBeatdownId(b2) = legacy
            /\ legacy \in DOMAIN docs ) =>
              /\ id1 # id2 /\ id1 # legacy /\ id2 # legacy
              /\ id1 \in DOMAIN docs' /\ docs'[id1].eventId = e1
              /\ id2 \in DOMAIN docs' /\ docs'[id2].eventId = e2
              /\ legacy \notin IdsOf(ScriptWrites(docs, apiEvents, apiLocations))
              /\ legacy \in DOMAIN docs' => docs'[legacy] = docs[legacy]
              /\ noCleanup => legacy \in DOMAIN docs'

C9_CollisionKeepsLegacy ==
    [][ /\ (report'.op = "scriptMainFull" /\ ScriptMain(FALSE, FALSE, FALSE))
              => CollidingKept(FALSE)
        /\ (report'.op = "scriptMainNoCleanup" /\ ScriptMain(FALSE, TRUE, FALSE))
              => CollidingKept(TRUE)
      ]_vars

\* the script has run over events 1 and 2, which share the stored legacy id:
\* both current documents are there beside the legacy document
C9_Witness ==
    /\ report.op \in {"scriptMainNoCleanup", "scriptMainFull"}
    /\ LegacySeedId \in DOMAIN docs
    /\ generateOldBeatdownId(docs[LegacySeedId]) = LegacySeedId
    /\ \E x, y \in DOMAIN docs :
          /\ x # y /\ x # LegacySeedId /\ y # LegacySeedId
          /\ docs[x].eventId = 1 /\ docs[y].eventId = 2
          /\ generateOldBeatdownId(docs[x]) = LegacySeedId
          /\ generateOldBeatdownId(docs[y]) = LegacySeedId
          /\ ~docs[x].lastUpdated /\ ~docs[y].lastUpdated

\* C10: a location-scoped operation for location l leaves every document
\* unchanged whose stored locationId is not l and whose id is not derived
\* from an upstream event of l, and creates only documents of such ids; an
\* event-scoped operation for event e leaves every document unchanged whose
\* stored eventId is not e, and creates only a document of e under the id
\* derived from it.
C10_WebhookFrame ==
    [][ /\ \A l \in LocationIds :
              (report'.op = "updateLocation" /\ updateLocationBeatdowns(l)) =>
                 IF report'.error THEN docs' = docs
                 ELSE LET derived == LocationSaveIds(apiEvents, apiLocations, l)
                      IN  /\ \A x \in DOMAIN docs :
                                (docs[x].locationId # l /\ x \notin derived) =>
                                    (x \in DOMAIN docs' /\ docs'[x] = docs[x])
                          /\ DOMAIN docs' \ DOMAIN docs \subseteq derived
        /\ \A l \in LocationIds :
              (report'.op = "deleteLocation" /\ deleteBeatdownsByLocation(l)) =>
                 /\ DOMAIN docs' = DOMAIN docs
                 /\ \A x \in DOMAIN docs : docs[x].locationId # l => docs'[x] = docs[x]
        /\ \A e \in EventIds :
              ( \/ report'.op = "updateEvent" /\ updateEventBeatdown(e)
                \/ report'.op = "deleteEvent" /\ deleteBeatdownsByEvent(e) ) =>
                 /\ \A x \in DOMAIN docs :
                       docs[x].eventId # e => (x \in DOMAIN docs' /\ docs'[x] = docs[x])
                 /\ \A x \in DOMAIN docs' \ DOMAIN docs :
                       docs'[x].eventId = e /\ x = generateBeatdownId(docs'[x])
      ]_vars

\* the update of location 2 has written a document of location 2 and a live
\* document of location 1 is still there
C10_Witness ==
    /\ report.op = "updateLocation" /\ ~report.error
    /\ \E x, y \in DOMAIN docs :
          /\ docs[x].locationId = 2 /\ docs[x].lastUpdated /\ ~docs[x].deleted
          /\ docs[y].locationId = 1 /\ ~docs[y].deleted

\* the newest document of webhookLogs and the payload it was made from
LastLog(logs) == logs[Len(logs)]

PayloadOf(entry) ==
    [ action |-> entry.action, channel |-> entry.channel, data |-> entry.data ]

LogAdded == Len(webhookLogs') = Len(webhookLogs) + 1

\* C11: a step that stores the log of a payload whose channel is not "prod"
\* leaves the beatdowns collection as it was, and the stored log has
\* actionedAt null and no error.
C11_NonProdOnlyLogged ==
    [][ (LogAdded /\ LastLog(webhookLogs').channel # "prod") =>
          /\ docs' = docs
          /\ ~LastLog(webhookLogs').actionedAt
          /\ ~LastLog(webhookLogs').error
      ]_vars

\* a "dev" map.deleted payload for location 1 was logged while a live
\* document of location 1 is stored
C11_Witness ==
    /\ Len(webhookLogs) > 0
    /\ LastLog(webhookLogs).channel = "dev"
    /\ LastLog(webhookLogs).action = "map.deleted"
    /\ LastLog(webhookLogs).data # NoData
    /\ LastLog(webhookLogs).data.locationId = 1
    /\ \E x \in DOMAIN docs : docs[x].locationId = 1 /\ ~docs[x].deleted

HookOperations == {"updateLocation", "updateEvent", "deleteLocation", "deleteEvent"}

ActiveUnstored(e) ==
    /\ e \in Resolvable(apiEvents, apiLocations)
    /\ apiEvents[e].isActive
    /\ DocsOfEvent(docs, e) = {}

C13_CreatedWhenFirstObserved ==
    [][ /\ (report'.op = "syncAll" /\ SyncAll) =>
              \A e \in EventIds : ActiveUnstored(e) => DocsOfEvent(docs', e) # {}
        /\ \A e \in EventIds :
              ( /\ report'.op = "updateEvent" /\ ~report'.error
                /\ updateEventBeatdown(e) ) =>
                 (ActiveUnstored(e) => DocsOfEvent(docs', e) # {})
      ]_vars

\* C14: after a full sync, and after the update of a location for the
\* documents of that location, every stored document whose event is gone
\* from the upstream feed or is there with isActive = false is soft-deleted.
GoneOrInactive(x) ==
    \/ docs[x].eventId \notin Present(apiEvents)
    \/ ~apiEvents[docs[x].eventId].isActive

C14_GoneOrInactiveSoftDeleted ==
    [][ /\ (report'.op = "syncAll" /\ SyncAll) =>
              \A x \in DOMAIN docs : GoneOrInactive(x) => docs'[x].deleted
        /\ \A l \in LocationIds :
              ( /\ report'.op = "updateLocation" /\ ~report'.error
                /\ updateLocationBeatdowns(l) ) =>
                 \A x \in DocsOfLocation(docs, l) :
                    GoneOrInactive(x) => docs'[x].deleted
      ]_vars

\* C15: when the locationId of an upstream event differs from the one in
\* its live stored document, the full sync soft-deletes that document,
\* leaving its locationId as it was, and stores the event in another
\* document with the new locationId.
C15_LocationChangeReplaces ==
    [][ (report'.op = "syncAll" /\ SyncAll) =>
          \A e \in Resolvable(apiEvents, apiLocations) :
            \A x \in DocsOfEvent(docs, e) :
              (~docs[x].deleted /\ docs[x].locationId # apiEvents[e].locationId) =>
                 /\ docs'[x].deleted
                 /\ docs'[x].locationId = docs[x].locationId
                 /\ \E y \in DOMAIN docs' \ {x} :
                       /\ docs'[y].eventId = e /\ ~docs'[y].deleted
                       /\ docs'[y].locationId = apiEvents[e].locationId
      ]_vars


----------------------------------------------------------------------------
(* Properties of a full pass taken step by step (SpecPass)                  *)

\* the response that the fetch step just taken has dealt with
ResponseOf(fetchAfter, reportAfter) ==
    IF fetchAfter = NoFetch THEN reportAfter.response ELSE fetchAfter.last

FetchStep == Fetching /\ fetch' # fetch

FetchThrows ==
    FetchStep /\ FetchDecision(fetch.impl, ResponseOf(fetch', report'), fetch.retryCount) = "throw"

\* C16: when the fetch of the upstream events or of the upstream locations
\* fails during a full pass, the whole pass aborts with an error, and the
\* collection is as the pass found it: nothing was written or soft-deleted.
C16_FetchFailureAborts ==
    [][ /\ Fetching => docs' = docs /\ docs = fetch.existing
        /\ FetchThrows =>
             /\ fetch' = NoFetch
             /\ report'.error
             /\ report'.op = PassOp(fetch.impl)
             /\ report'.failedAt = fetch.url
             /\ docs' = fetch.existing ]_vars

\* a pass that had batches to commit was aborted by a failed fetch
C16_Witness ==
    /\ fetch = NoFetch
    /\ report.op = "syncAll" /\ report.error
    /\ report.failedAt \in {"events", "locations"}
    /\ SyncBatchCount(docs, apiEvents, apiLocations) > 0

\* C17: fetchWithRetry has a fixed ceiling of 3 retries.  A call makes at
\* most maxRetries + 1 requests whatever the responses are: each retry adds
\* one to retryCount, and at the ceiling the call ends with the response it
\* gets; a rate-limit response at the ceiling is an error that aborts the
\* whole pass.  Every call under way ends.
C17_RetryCeiling ==
    /\ [][ FetchStep =>
             /\ fetch.retryCount <= maxRetries
             /\ fetch.requests = fetch.retryCount
             /\ (fetch' # NoFetch /\ fetch'.url = fetch.url) =>
                    fetch'.retryCount = fetch.retryCount + 1
             /\ fetch.retryCount = maxRetries =>
                    /\ fetch' = NoFetch \/ fetch'.url # fetch.url
                    /\ ResponseOf(fetch', report') = "429" =>
                         /\ fetch' = NoFetch
                         /\ report'.error
                         /\ report'.requests = maxRetries + 1 ]_vars
    /\ \A url \in {"events", "locations"} :
         (Fetching /\ fetch.url = url) ~> ~(Fetching /\ fetch.url = url)

\* a call answered by rate-limit responses only gave up at the ceiling
C17_Witness ==
    /\ fetch = NoFetch
    /\ report.error /\ report.failedAt \in {"events", "locations"}
    /\ report.response = "429"
    /\ report.requests = maxRetries + 1

\* C18: a transient upstream error, a rate-limit response or a network
\* failure alike, is retried as long as the ceiling is not reached; it ends
\* the pass only at the ceiling.
C18_TransientRetried ==
    [][ ( /\ FetchStep
          /\ ResponseOf(fetch', report') \in {"429", "network"}
          /\ fetch.retryCount < maxRetries ) =>
            /\ fetch' # NoFetch
            /\ fetch'.url = fetch.url
            /\ fetch'.retryCount = fetch.retryCount + 1 ]_vars

\* upstream events that are there and whose location the bulk fetch lacks
Unlisted(events, locations) ==
    Present(events) \ Resolvable(events, locations)

PassCompleted ==
    /\ fetch # NoFetch /\ fetch.url = "fetched"
    /\ fetch' = NoFetch
    /\ ~report'.error

\* C19: in a full pass an event whose locationId is absent from the bulk
\* location fetch is skipped: no document of that event is created or
\* rewritten (a stored one is at most soft-deleted), the pass ends without
\* an error, and every event whose location the bulk fetch lists has its
\* document stored with the upstream content.
C19_UnlistedLocationSkipped ==
    [][ PassCompleted =>
          /\ \A e \in Unlisted(apiEvents, apiLocations) :
               \A x \in DOMAIN docs' :
                 docs'[x].eventId = e =>
                   /\ x \in DOMAIN docs
                   /\ docs'[x] \in {docs[x], SoftDelete(docs, {x})[x]}
          /\ \A e \in Resolvable(apiEvents, apiLocations) :
               LET b == IF fetch.impl = "sync"
                        THEN SyncBeatdown(apiEvents, apiLocations, e)
                        ELSE ScriptBeatdown(apiEvents, apiLocations, e)
               IN  \E x \in DOMAIN docs' : beatdownsAreEqual(docs'[x], b) ]_vars

\* C20: when a full pass fails after some of its batches were committed and
\* the pass is then run again to completion against the same upstream data,
\* the collection (timestamps taken as set or unset) is the one that the
\* failed pass would have left had it not been interrupted.  The report of
\* the failed pass holds that collection.
C20_RerunCompletes ==
    [][ ( /\ report.op = "syncAll" /\ report.error
          /\ report.failedAt = "commit"
          /\ fetch # NoFetch /\ fetch.impl = "sync"
          /\ PassCompleted ) =>
            docs' = report.uninterrupted ]_vars

\* a pass failed between two of its commits, left the collection in a state
\* that neither the start nor the end of the pass is, and the pass run again
\* has fetched the same upstream data
C20_Witness ==
    /\ report.op = "syncAll" /\ report.error
    /\ report.failedAt = "commit"
    /\ report.committed >= 1
    /\ docs # report.uninterrupted
    /\ fetch # NoFetch /\ fetch.impl = "sync" /\ fetch.url = "fetched"
    /\ SyncBatchCount(docs, apiEvents, apiLocations) >= 1

NoSummary == [ absent |-> "summary" ]

\* the summary lines a pass logs: they are the last statements of the try
\* block, so a pass that leaves through the catch block logs none
EmittedSummary(impl, rep, existing, events, locations) ==
    IF rep.error THEN NoSummary
    ELSE IF impl = "sync" THEN SyncSummary(existing, events, locations)
    ELSE ScriptSummary(existing, events, locations)

PassEnds == fetch # NoFetch /\ fetch' = NoFetch

\* C21: every pass ends by emitting the summary of counts, a pass that
\* fails after a fetch error or a failed batch commit included.
C21_SummaryAlwaysEmitted ==
    [][ PassEnds =>
          EmittedSummary(fetch.impl, report', docs, apiEvents, apiLocations)
              # NoSummary ]_vars

----------------------------------------------------------------------------
(* Properties of the pure functions (SpecFn)                                *)

CoordinatesCompared == report.op = "coordinatesAreEqual"

\* the planar distance in millimeters, computed apart from the detector:
\* 111 mm per 10^-6 degree of latitude, times the cosine for the longitude
PlanarUnderTenMeters(lat1, dLat, dLong) ==
    LET c == CosMilli(lat1, lat1 + dLat)
        latMm == Abs(dLat) * 111
        longMm == IF Abs(dLong) <= 1000 THEN (Abs(dLong) * 111 * c) \div 1000
                  ELSE (Abs(dLong) \div 1000) * 111 * c
    IN  /\ latMm < 10000
        /\ longMm < 10000
        /\ latMm * latMm + longMm * longMm < 10000 * 10000

CloseCoordinatesEqual ==
    /\ (Abs(idA.dLat) <= 50 /\ Abs(idA.dLong) <= 50) => report.result
    /\ PlanarUnderTenMeters(idA.lat1, idA.dLat, idA.dLong) => report.result

\* C22 (as stated): the coordinate comparison is true for two points at most
\* 0.00005 degrees apart in each axis and for two points under 10 meters
\* apart, and false for two points 1 degree apart in latitude or in
\* longitude, at every valid latitude.
C22_CoordinateTolerance ==
    CoordinatesCompared =>
      /\ CloseCoordinatesEqual
      /\ (Abs(idA.dLat) = Degree \/ Abs(idA.dLong) = Degree) => ~report.result

\* C22 (amended): as above, but a difference of 1 degree in longitude alone
\* gives false only away from the poles (here: mean latitude within 89
\* degrees); at latitude 90 the cosine is 0, the distance is 0, and the
\* comparison is true.
C22_CoordinateToleranceOffPoles ==
    CoordinatesCompared =>
      /\ CloseCoordinatesEqual
      /\ Abs(idA.dLat) = Degree => ~report.result
      /\ (Abs(idA.dLong) = Degree /\ Abs(2 * idA.lat1 + idA.dLat) <= 2 * 89 * Degree)
            => ~report.result
      /\ (Abs(idA.dLong) = Degree /\ idA.dLat = 0 /\ Abs(idA.lat1) = 90 * Degree)
            => report.result

\* one degree of longitude apart at latitude 89: not equal
C22_Witness ==
    /\ CoordinatesCompared
    /\ idA.lat1 = 89 * Degree /\ idA.dLat = 0 /\ Abs(idA.dLong) = Degree
    /\ ~report.result

SpecExample ==
    /\ report.op = "generateBeatdownId"
    /\ idA.region = RiverCity /\ idA.name = Gauntlet
    /\ idA.dayOfWeek = Monday /\ idA.eventId = 9

\* C23 (as stated): for region "River City", name "Gauntlet", dayOfWeek
\* "monday" and eventId 9 the current-scheme id is
\* river-city_gauntlet_monday_9.
C23_ExampleIdUnderscores ==
    SpecExample =>
      report.result = <<"r","i","v","e","r","-","c","i","t","y","_",
                        "g","a","u","n","t","l","e","t","_",
                        "m","o","n","d","a","y","_","9">>

\* C23 (amended): for that record the current-scheme id is
\* river-city-gauntlet-monday-9: the underscores that join the fields are
\* outside [a-z0-9-] and become hyphens like the space.
C23_ExampleIdHyphens ==
    SpecExample =>
      report.result = <<"r","i","v","e","r","-","c","i","t","y","-",
                        "g","a","u","n","t","l","e","t","-",
                        "m","o","n","d","a","y","-","9">>

C23_Witness == SpecExample /\ Len(report.result) = 28

----------------------------------------------------------------------------
(* Properties of the comparison loop of the full sync (SpecFn)              *)

SyncDocId(e) == generateBeatdownId(SyncBeatdown(apiEvents, apiLocations, e))

IsInsert(e) == SyncDocId(e) \notin DOMAIN docs

IsUpdate(e) ==
    /\ SyncDocId(e) \in DOMAIN docs
    /\ \/ ~beatdownsAreEqual(docs[SyncDocId(e)], SyncBeatdown(apiEvents, apiLocations, e))
       \/ ~docs[SyncDocId(e)].lastUpdated

\* C24: the comparison loop of the full sync puts every normalized record in
\* exactly one class: insert (no stored document under its id), update (the
\* stored content differs, or the stored document has no lastUpdated) or
\* skip.  The records queued for writing are the inserts and the updates,
\* and new + updated + skipped is the number of normalized records.
C24_ComparisonClasses ==
    [][ report'.op = "syncAll" =>
          LET res == Resolvable(apiEvents, apiLocations)
              summary == SyncSummary(docs, apiEvents, apiLocations)
              writes == SyncWrites(docs, apiEvents, apiLocations)
          IN  /\ IdsOf(writes) = { SyncDocId(e) : e \in { x \in res : IsInsert(x) \/ IsUpdate(x) } }
              /\ Len(writes) = summary.newBeatdowns + summary.updatedBeatdowns
              /\ summary.newBeatdowns = Cardinality({ e \in res : IsInsert(e) })
              /\ summary.updatedBeatdowns = Cardinality({ e \in res : IsUpdate(e) })
              /\ summary.newBeatdowns + summary.updatedBeatdowns
                    + summary.skippedUnchanged = Cardinality(res)
              /\ \A e \in res :
                   IF IsInsert(e) \/ IsUpdate(e)
                   THEN /\ docs'[SyncDocId(e)].lastUpdated
                        /\ beatdownsAreEqual(docs'[SyncDocId(e)],
                                             SyncBeatdown(apiEvents, apiLocations, e))
                   ELSE docs'[SyncDocId(e)] = docs[SyncDocId(e)] ]_vars

\* a pass found the document of event 1 stamped and equal in content, and
\* no document of event 2: one record skipped, one inserted
C24_Witness ==
    /\ idA.fn = "syncAll" /\ report.op = "syncAll"
    /\ idA.lastUpdated /\ idA.notes = << >>
    /\ Cardinality(DOMAIN docs) = 2
    /\ \E x \in DOMAIN docs : docs[x].locationId = idA.locationId /\ docs[x].eventId = idA.eventId
    /\ idA.locationId = 1 /\ idA.eventId = 1

\* C25: the change detector leaves locationId and eventId out: a stored
\* document that equals the upstream record in every content field is
\* equivalent to it whatever its locationId and eventId are, and the full
\* sync, finding it under the record's id with lastUpdated set, skips it:
\* the document is not rewritten.
C25_IdentityFieldsIgnored ==
    [][ (idA.fn = "syncAll" /\ report'.op = "syncAll") =>
          LET b == SyncBeatdown(apiEvents, apiLocations, 1)
              id == generateBeatdownId(b)
          IN  /\ beatdownsAreEqual(docs[id], b) <=> idA.notes = b.notes
              /\ (idA.notes = b.notes /\ idA.lastUpdated) =>
                    /\ docs'[id] = docs[id]
                    /\ docs'[id].locationId = idA.locationId
                    /\ docs'[id].eventId = idA.eventId ]_vars

\* a stored document with another locationId and eventId went through a pass
\* and still holds them
C25_Witness ==
    /\ idA.fn = "syncAll" /\ report.op = "syncAll"
    /\ idA.locationId = 7 /\ idA.eventId = 2
    /\ idA.lastUpdated /\ idA.notes = << >>
    /\ \E x \in DOMAIN docs : docs[x].locationId = 7 /\ docs[x].eventId = 2

RECURSIVE Flatten(_)
Flatten(chunks) ==
    IF Len(chunks) = 0 THEN << >> ELSE chunks[1] \o Flatten(Tail(chunks))

\* C26: for every list and every size >= 1 (the sync passes BATCH_SIZE),
\* chunkArray returns non-empty chunks of at most size items each, all but
\* the last of exactly size items, whose concatenation in order is the
\* list; an empty list has no chunk, so no batch is committed.
C26_ChunksPartitionList ==
    report.op = "chunkArray" =>
      LET chunks == report.result
      IN  /\ \A i \in DOMAIN chunks :
               /\ Len(chunks[i]) >= 1
               /\ Len(chunks[i]) <= idA.size
               /\ i < Len(chunks) => Len(chunks[i]) = idA.size
          /\ Flatten(chunks) = idA.array
          /\ Len(idA.array) = 0 => Len(chunks) = 0

\* a list that does not divide into full chunks was chunked
C26_Witness ==
    /\ report.op = "chunkArray"
    /\ Len(report.result) = 3
    /\ Len(idA.array) = 5 /\ idA.size = 2

\* C27: every current-scheme id is made of characters in [a-z0-9-] only, has
\* no two hyphens in a row, and neither starts nor ends with a hyphen,
\* whatever the region, the name, the day and the event id are (an empty
\* region or name included).
C27_IdWellFormed ==
    report.op = "generateBeatdownId" =>
      LET id == report.result
      IN  /\ \A i \in DOMAIN id : id[i] \in IdChars
          /\ \A i \in DOMAIN id : i > 1 => ~(id[i-1] = "-" /\ id[i] = "-")
          /\ Len(id) > 0 => (id[1] # "-" /\ id[Len(id)] # "-")

\* the id of a record with an empty region and a name of special characters
C27_Witness ==
    /\ report.op = "generateBeatdownId"
    /\ idA.region = << >>
    /\ idA.name = <<"-"," "," ","A",",",",","b","_">>
    /\ Len(report.result) > 0

LegacyBase == idA.region \o <<"_">> \o idA.name \o <<"_">> \o idA.dayOfWeek

OutsideIdChars(c) == LowerChar[c] \notin IdChars

\* the string with every run of characters outside [a-z0-9-] replaced with
\* one hyphen, lower-cased
RunsReplaced(s) ==
    SelectSeq([ i \in DOMAIN s |->
                  IF ~OutsideIdChars(s[i]) THEN LowerChar[s[i]]
                  ELSE IF i > 1 /\ OutsideIdChars(s[i-1]) THEN "" ELSE "-" ],
              LAMBDA c : c # "")

\* C28 (as stated): the legacy id is the lower-cased string region_name_day
\* in which any run of characters outside [a-z0-9-] is replaced with a
\* single hyphen.
C28_LegacyRunsReplaced ==
    report.op = "generateOldBeatdownId" => report.result = RunsReplaced(LegacyBase)

\* C28 (amended): the legacy id is the lower-cased string region_name_day in
\* which each character outside [a-z0-9-] is replaced with a hyphen, one for
\* one: the id is as long as the string, and a run of n such characters
\* gives n hyphens.
C28_LegacyEachReplaced ==
    report.op = "generateOldBeatdownId" =>
      LET id == report.result
      IN  /\ Len(id) = Len(idA.region) + Len(idA.name) + Len(idA.dayOfWeek) + 2
          /\ \A i \in DOMAIN id :
               id[i] = IF OutsideIdChars(LegacyBase[i]) THEN "-"
                       ELSE LowerChar[LegacyBase[i]]

\* a legacy id with two hyphens in a row, from an empty name
C28_Witness ==
    /\ report.op = "generateOldBeatdownId"
    /\ idA.name = << >> /\ idA.region = RiverCity
    /\ \E i \in DOMAIN report.result :
         i > 1 /\ report.result[i-1] = "-" /\ report.result[i] = "-"

\* C29: for a 24-hour time of up to 4 digits formatTime pads it to 4 digits
\* and gives "h:mm am" or "h:mm pm", h being the hour modulo 12, or 12 when
\* that is 0 (h is in 1..12), and pm exactly when the hour is 12 or more; no
\* time gives an empty half; timeString is the start half, " - " and the
\* end half.
C29_TwelveHourClock ==
    report.op = "formatTime" =>
      LET h == IF idA.hour % 12 = 0 THEN 12 ELSE idA.hour % 12
          mm == SubSeq(TimeDigits(idA.hour, idA.minute), 3, 4)
          hDigits == IF h >= 10 THEN <<"1", DigitChars[h - 10 + 1]>>
                     ELSE <<DigitChars[h + 1]>>
      IN  /\ h \in 1..12
          /\ idA.strip < 4 =>
                report.result.start =
                    hDigits \o <<":">> \o mm
                        \o (IF idA.hour >= 12 THEN <<" ","p","m">> ELSE <<" ","a","m">>)
          /\ idA.strip = 4 => report.result.start = << >>
          /\ idA.endTime = << >> => report.result.end = << >>
          /\ report.result.timeString =
                report.result.start \o <<" ","-"," ">> \o report.result.end

\* half past noon written in full, and five past midnight written "5"
C29_Witness ==
    /\ report.op = "formatTime"
    /\ \/ idA.hour = 12 /\ idA.minute = 30 /\ idA.strip = 0
       \/ idA.hour = 0 /\ idA.minute = 5 /\ idA.strip = 3
    /\ report.result.start \in { <<"1","2",":","3","0"," ","p","m">>,
                                 <<"1","2",":","0","5"," ","a","m">> }

----------------------------------------------------------------------------
(* Properties of the webhook dispatch (SpecHook)                            *)

\* C30: for a prod payload with a locationId, with or without an eventId,
\* the location-scoped operation runs (update for map.updated, soft delete
\* for map.deleted) and no other; the event-scoped operation runs only when
\* the locationId is absent; with neither id, or with an unknown action, the
\* beatdowns collection is untouched and the log's actionedAt stays null.
C30_LocationBeforeEvent ==
    [][ ( /\ LogAdded
          /\ LastLog(webhookLogs').channel = "prod"
          /\ LastLog(webhookLogs').data # NoData ) =>
          LET entry == LastLog(webhookLogs')
              l == entry.data.locationId
              e == entry.data.eventId
          IN  /\ (l # 0 /\ entry.action = "map.updated") =>
                    /\ report'.op = "updateLocation"
                    /\ updateLocationBeatdowns(l)
              /\ (l # 0 /\ entry.action = "map.deleted") =>
                    /\ report'.op = "deleteLocation"
                    /\ deleteBeatdownsByLocation(l)
              /\ report'.op \in {"updateEvent", "deleteEvent"} => (l = 0 /\ e # 0)
              /\ (l = 0 /\ e # 0 /\ entry.action = "map.updated") =>
                    updateEventBeatdown(e)
              /\ (l = 0 /\ e # 0 /\ entry.action = "map.deleted") =>
                    deleteBeatdownsByEvent(e)
              /\ ((l = 0 /\ e = 0) \/ entry.action \notin {"map.updated", "map.deleted"}) =>
                    /\ docs' = docs
                    /\ ~entry.actionedAt ]_vars

\* a prod map.updated payload with both ids was handled by the
\* location-scoped update, which stored documents
C30_Witness ==
    /\ Len(webhookLogs) > 0
    /\ LastLog(webhookLogs).channel = "prod"
    /\ LastLog(webhookLogs).action = "map.updated"
    /\ LastLog(webhookLogs).data # NoData
    /\ LastLog(webhookLogs).data.locationId # 0
    /\ LastLog(webhookLogs).data.eventId # 0
    /\ LastLog(webhookLogs).actionedAt
    /\ report.op = "updateLocation"
    /\ Cardinality(DOMAIN docs) >= 2

----------------------------------------------------------------------------
(* Webhook-scoped operations on a collection that lags behind upstream *)

\* the upstream data after one change the collection has not seen yet: none,
\* event 1 renamed, event 1 moved to location 2
DriftVariants ==
    { [ events |-> [ e \in EventIds |->
                       IF e = 1 /\ kind # "none" THEN EditedEvent(BaseEvent(1), 1, kind)
                       ELSE BaseEvent(e) ],
        locations |-> [ l \in LocationIds |-> BaseLocation(l) ] ] :
      kind \in {"none", "name", "location"} }

\* the production notifications that name one location or one event
DriftPayloads ==
    { body \in [ action : {"map.updated", "map.deleted"}, channel : {"prod"},
                 data : [ locationId : {0} \cup LocationIds, eventId : {0} \cup EventIds ] ] :
        (body.data.locationId = 0) # (body.data.eventId = 0) }

\* the collection as a run may find it, or as a full pass over the upstream
\* data before the change left it
InitDrift ==
    /\ \E S \in SeedSets, synced \in BOOLEAN :
          LET seeded == [ id \in S |-> SeedDoc(id) ]
              events == [ e \in EventIds |-> BaseEvent(e) ]
              locations == [ l \in LocationIds |-> BaseLocation(l) ]
          IN  docs = IF synced
                     THEN SyncCommitted(seeded, events, locations,
                                        SyncBatchCount(seeded, events, locations))
                     ELSE seeded
    /\ \E u \in DriftVariants : apiEvents = u.events /\ apiLocations = u.locations
    /\ report = Report("init")
    /\ edits = 0
    /\ idA = NoProbe
    /\ idB = NoProbe
    /\ webhookLogs = << >>
    /\ fetch = NoFetch
    /\ rerun = NoRerun
    /\ jsonCache = generateJsonCache(docs)

NextDrift ==
    \E body \in DriftPayloads :
        /\ Len(webhookLogs) < MaxLogs
        /\ mapWebhook("POST", body)
        /\ UNCHANGED <<fetch, rerun>>

SpecDrift == InitDrift /\ [][NextDrift]_vars

----------------------------------------------------------------------------
(* Properties of the webhook replay (SpecRerun)                             *)

\* one iteration of the replay's loop took place
RerunIterates == rerun.running /\ rerun.queue # << >> /\ rerun' # rerun

\* C31: a replay with dryRun = false skips every selected log that has
\* actionedAt and no error; for every other selected log it runs the action
\* and then either sets actionedAt and removes the error (success) or records
\* an error with rerunError = true and leaves actionedAt as it was (failure);
\* after a failure the loop goes on with the remaining logs.
C31_ReplayMarksEachLog ==
    [][ (RerunIterates /\ ~rerun.dryRun) =>
          LET i == Head(rerun.queue)
              webhookData == webhookLogs[i]
              target == RerunTarget(webhookData)
          IN  /\ rerun'.running /\ rerun'.queue = Tail(rerun.queue)
              /\ \A j \in DOMAIN webhookLogs : j # i => webhookLogs'[j] = webhookLogs[j]
              /\ IF webhookData.actionedAt /\ ~webhookData.error
                 THEN /\ webhookLogs' = webhookLogs
                      /\ docs' = docs
                 ELSE /\ target = "deleteLocation" =>
                            docs' = SoftDelete(docs, DocsOfLocation(docs, webhookData.data.locationId))
                      /\ target = "deleteEvent" =>
                            docs' = SoftDelete(docs, DocsOfEvent(docs, webhookData.data.eventId))
                      /\ target = "updateLocation" => updateLocationBeatdowns(webhookData.data.locationId)
                      /\ target = "updateEvent" => updateEventBeatdown(webhookData.data.eventId)
                      /\ IF report'.error
                         THEN /\ webhookLogs'[i].error
                              /\ "rerunError" \in DOMAIN webhookLogs'[i]
                              /\ webhookLogs'[i].rerunError
                              /\ webhookLogs'[i].actionedAt = webhookData.actionedAt
                         ELSE /\ webhookLogs'[i].actionedAt
                              /\ ~webhookLogs'[i].error ]_vars

\* the replay of the newest log failed and the replay then went on to mark
\* an older log, which had neither actionedAt nor an error, as actioned
C31_Witness ==
    /\ rerun.running /\ ~rerun.dryRun
    /\ Len(rerun.handled) = 2
    /\ "rerunError" \in DOMAIN webhookLogs[rerun.handled[1]]
    /\ ~webhookLogs[rerun.handled[1]].actionedAt
    /\ "rerunError" \notin DOMAIN webhookLogs[rerun.handled[2]]
    /\ "rerunAt" \in DOMAIN webhookLogs[rerun.handled[2]]
    /\ webhookLogs[rerun.handled[2]].actionedAt
    /\ ~webhookLogs[rerun.handled[2]].error

\* C32: the replay re-executes the pending logs oldest first: whenever it
\* re-executes a log, no pending log with an earlier timestamp is still
\* waiting in the same replay.
C32_OldestFirst ==
    [][ (RerunIterates /\ ~RerunSkips(webhookLogs[Head(rerun.queue)])) =>
          \A k \in 2..Len(rerun.queue) :
              \/ RerunSkips(webhookLogs[rerun.queue[k]])
              \/ rerun.queue[k] > Head(rerun.queue) ]_vars

----------------------------------------------------------------------------
(* Properties of the webhook-scoped operations on a lagging collection
   (SpecDrift)                                                              *)

\* C33: when the event-scoped update of an active event finds a stored
\* document and the id derived from the fresh record differs from the id
\* derived from the stored record, the update does not fail, the stored
\* document that was found is flagged deleted, and the fresh record is stored
\* under the new id.
C33_FoundDocumentRetired ==
    [][ ( /\ LogAdded
          /\ LastLog(webhookLogs').action = "map.updated"
          /\ LastLog(webhookLogs').data.locationId = 0
          /\ LastLog(webhookLogs').data.eventId # 0
          /\ DocsOfEvent(docs, LastLog(webhookLogs').data.eventId) # {}
          /\ apiEvents[LastLog(webhookLogs').data.eventId] # NoEvent
          /\ apiEvents[LastLog(webhookLogs').data.eventId].isActive ) =>
          \E found \in DocsOfEvent(docs, LastLog(webhookLogs').data.eventId) :
              LET stored == docs[found]
                  fresh == transformToBeatdown(apiLocations[stored.locationId],
                               apiEvents[LastLog(webhookLogs').data.eventId])
                  docId == generateBeatdownId(fresh)
              IN  generateBeatdownId(stored) # docId =>
                      /\ ~report'.error
                      /\ docs'[found].deleted
                      /\ docId \in DOMAIN docs'
                      /\ ~docs'[docId].deleted
                      /\ docs'[docId].name = fresh.name ]_vars

\* the fields of a stored document that a write of a record sets
RecordOf(doc) ==
    [ doc EXCEPT !.lastUpdated = FALSE, !.deleted = FALSE, !.deletedAt = FALSE ]

\* the step stored a record under x: a new document, or new field values
Written(x) ==
    /\ x \in DOMAIN docs'
    /\ x \in DOMAIN docs => RecordOf(docs'[x]) # RecordOf(docs[x])

\* C34: every record a reconciliation step writes carries the latitude and
\* the longitude of the upstream location whose id is the record's locationId.
C34_CoordinatesOfOwnLocation ==
    [][ \A x \in DOMAIN docs' :
          Written(x) =>
              /\ docs'[x].locationId \in LocationIds
              /\ apiLocations[docs'[x].locationId] # NoLocation
              /\ docs'[x].lat = apiLocations[docs'[x].locationId].latitude
              /\ docs'[x].long = apiLocations[docs'[x].locationId].longitude ]_vars

\* C35: with event 1 moved upstream from location 1 to location 2, once the
\* location-scoped update has completed for both locations, in either order,
\* the event's document is not flagged deleted and carries locationId 2.
C35_MovedEventKept ==
    ( /\ apiEvents[1] # NoEvent /\ apiEvents[1].locationId = 2
      /\ Len(webhookLogs) = 2
      /\ \A i \in 1..2 : /\ webhookLogs[i].action = "map.updated"
                         /\ webhookLogs[i].actionedAt
      /\ { webhookLogs[1].data.locationId, webhookLogs[2].data.locationId } = {1, 2} ) =>
        /\ SyncDocId(1) \in DOMAIN docs
        /\ ~docs[SyncDocId(1)].deleted
        /\ docs[SyncDocId(1)].locationId = 2

----------------------------------------------------------------------------
(* Properties of a full pass that overlaps other operations (SpecOverlap)   *)

\* the step is the end of a full pass
PassCommits == fetch # NoFetch /\ fetch.url = "fetched" /\ fetch' = NoFetch

\* C36: the documents a full pass flags deleted are documents of the
\* snapshot it read at its start whose ids are not in its processed set; a
\* document stored after the snapshot was read keeps its deleted flag, and is
\* left as it is unless the pass itself writes a record under its id.
C36_CleanupFromSnapshot ==
    [][ PassCommits =>
          /\ \A x \in DOMAIN docs' :
                (docs'[x].deleted /\ ~(x \in DOMAIN docs /\ docs[x].deleted)) =>
                    /\ x \in DOMAIN fetch.existing
                    /\ x \notin SyncProcessedIds(apiEvents, apiLocations)
          /\ \A x \in DOMAIN docs \ DOMAIN fetch.existing :
                /\ x \in DOMAIN docs'
                /\ docs'[x].deleted = docs[x].deleted
                /\ x \notin SyncProcessedIds(apiEvents, apiLocations) => docs'[x] = docs[x] ]_vars

\* a pass has ended that flagged a document of its snapshot deleted and left
\* alone a live document, absent from its processed set, that a
\* location-scoped update had stored after the snapshot was read
C36_Witness ==
    /\ fetch = NoFetch
    /\ report.op = "syncAll" /\ ~report.error
    /\ \E x \in DOMAIN docs :
          /\ ~docs[x].deleted
          /\ x \notin SyncProcessedIds(apiEvents, apiLocations)
          /\ x \notin { generateBeatdownId(SeedBeatdown(e)) : e \in {1, 2, GoneEventId} }
          /\ x # generateOldBeatdownId(SeedBeatdown(1))
    /\ \E y \in DOMAIN docs :
          /\ docs[y].deleted
          /\ y = generateBeatdownId(SeedBeatdown(GoneEventId))

----------------------------------------------------------------------------
(* Properties of the two normalizers (SpecFn)                               *)

\* both normalizers have been applied to the pair under test
Normalized == idA.fn = "transform" /\ report.op = "transform"

----------------------------------------------------------------------------
(* Properties of the cache regeneration in the webhook handler (SpecHook)   *)

\* C38: when the operation a webhook selected has ended without an error and
\* the regeneration of the JSON cache then fails (all.json is left behind
\* the collection), the stored log has actionedAt set and no error, the
\* request is answered as a success, and the collection holds what the
\* operation wrote.
C38_CacheFailureSwallowed ==
    [][ ( /\ LogAdded
          /\ HookTarget(PayloadOf(LastLog(webhookLogs'))) \in HookOperations
          /\ ~report'.error
          /\ jsonCache' # generateJsonCache(docs') ) =>
          LET entry == LastLog(webhookLogs')
              target == HookTarget(PayloadOf(entry))
          IN  /\ entry.actionedAt
              /\ ~entry.error
              /\ report'.op # "methodNotAllowed"
              /\ jsonCache' = jsonCache
              /\ target = "updateLocation" => updateLocationBeatdowns(entry.data.locationId)
              /\ target = "updateEvent" => updateEventBeatdown(entry.data.eventId)
              /\ target = "deleteLocation" => deleteBeatdownsByLocation(entry.data.locationId)
              /\ target = "deleteEvent" => deleteBeatdownsByEvent(entry.data.eventId) ]_vars

\* a location-scoped update stored documents, the regeneration of the cache
\* failed, and the webhook was logged as actioned
C38_Witness ==
    /\ Len(webhookLogs) > 0
    /\ LastLog(webhookLogs).actionedAt
    /\ ~LastLog(webhookLogs).error
    /\ report.op = "updateLocation" /\ ~report.error
    /\ jsonCache # generateJsonCache(docs)
    /\ \E x \in DOMAIN docs : ~docs[x].deleted /\ x \notin DOMAIN jsonCache

----------------------------------------------------------------------------
(* Properties of the sync script's flags (SpecScript)                       *)

\* C39: a run of the sync script with --dry-run, whatever the other flags,
\* writes and deletes no document.
C39_DryRunWritesNothing ==
    [][ (\E isAnalysisMode \in BOOLEAN, noCleanup \in BOOLEAN, onlyCleanup \in BOOLEAN :
            ScriptRun(isAnalysisMode, TRUE, noCleanup, onlyCleanup)) =>
          docs' = docs ]_vars
=============================================================================
